---- MODULE Spec2Model ----
(***************************************************************************)
(* A model of the Exo / SYS_ATL lowering pipeline and of its helpers.      *)
(*                                                                         *)
(* The compiler is a single-threaded pure traversal, so every component is *)
(* modelled as a small state machine of its own: the inputs of a           *)
(* component are drawn in its Init, and its actions are the handlers of    *)
(* the source, each translated whole.  One specification per component:    *)
(*                                                                         *)
(*   SpecFloorDiv   the emitted C helper exo_floor_div                     *)
(*   SpecDiv        lowering of an index division (comp_cir, comp_e)       *)
(*   SpecSubprocs   find_all_subprocs                                      *)
(*   SpecStatic     Compiler.static_memory_check                           *)
(*   SpecNames      Compiler.new_varname / push / pop                      *)
(*   SpecPPrint     LoopIR_PPrinter.new_name / push / pop                  *)
(*   SpecSig        Compiler.format_fnarg_ctype                            *)
(*   SpecStrides    tensor_strides / get_strides / get_idx_offset          *)
(*   SpecWindow     Compiler.window_struct_fields                          *)
(*   SpecPreds      the precondition loop of Compiler.__init__             *)
(*   SpecLib        ext_compile_to_strings                                 *)
(*   SpecCursors    cursors into a procedure: moves, gaps, selections      *)
(*   SpecInsert     insertion of statements at a gap                       *)
(*   SpecDivideLoop a loop divided with a guarded tail, as it runs         *)
(*   SpecSimplify   simplify_cir                                           *)
(*   SpecLoopMode   LoopMode.cuda_can_nest_in                              *)
(*   SpecLower      Compiler.comp_s, push and pop                          *)
(*   SpecCollIndex  CollIndexExpr.__truediv__ and __mod__                  *)
(*   SpecCompCir    comp_cir on expressions over + - * %                   *)
(*   SpecDomain     DomainCompletionOp                                     *)
(*                                                                         *)
(* The variables of a component that a specification does not use stay at  *)
(* their idle value 0.                                                     *)
(***************************************************************************)
EXTENDS Integers, Sequences, FiniteSets, TLC

VARIABLES
    pc,             \* position of the component under study
    \* ---- exo_floor_div (emitted C)
    num, quot, fd_ret,
    \* ---- lowering of an index division
    range_env,      \* Compiler.range_env: symbol -> interval
    idx_e,          \* the LoopIR expression being lowered
    lowered,        \* the text returned by access_str / comp_e
    needed_helpers, \* Compiler._needed_helpers
    \* ---- find_all_subprocs
    calls,          \* proc -> the procedures its body calls
    instr,          \* the procedures with an instr record
    proc_list,      \* the argument of find_all_subprocs
    all_procs, seen,\* its locals
    stack,          \* the active calls of walk
    next_root,      \* position of the loop over proc_list
    sub_ret,        \* the returned list
    \* ---- static_memory_check
    body,           \* proc.body, a block of statements
    \* ---- Compiler.new_varname / push / pop
    names,          \* Compiler.names: ChainMap  C identifier or user name -> C identifier
    self_env,       \* Compiler.env: ChainMap  symbol -> C identifier
    tab,            \* Compiler._tab, in units of two blanks
    n_syms,         \* symbols created so far (the id of the last one)
    nm_last,        \* the last call of new_varname: its symbol, its result
    nm_given,       \* every symbol declared so far -> the identifier it was given
    \* ---- LoopIR_PPrinter / UAST_PPrinter new_name, push, pop
    pp_env,         \* the printer's env: a stack of maps  user name -> printed name
    pp_tab,         \* the printer's _tab, in units of two blanks
    pp_scope,       \* per open scope: symbol declared in it -> the name it was printed with
    pp_n,           \* symbols declared so far
    \* ---- Compiler.__init__: the signature
    sig_args,       \* proc.args: a sequence of fnargs [name, type]
    sig_writes,     \* get_writes_of_stmts(proc.body): a sequence of <<symbol, type>>
    sig_i,          \* the argument the loop of line 622 handles next
    sig_names,      \* Compiler.names while the arguments are declared
    arg_strs,       \* arg_strs: per argument, its C type and its C identifier
    window_defns,   \* Compiler.window_defns: the window structs to define
    \* ---- tensor_strides / get_idx_offset on a dense tensor
    st_shape,       \* the shape of the tensor: a sequence of size expressions
    st_idx,         \* the index of an access: a sequence of index expressions
    st_val,         \* the run-time values of the symbols
    st_strides,     \* the result of get_strides
    st_offset,      \* the result of get_idx_offset
    \* ---- window_struct_fields
    win_e,          \* the WindowExpr: the buffer's name and one access per axis
    win_typ,        \* envtyp of the buffer: a dense tensor or a window
    win_known,      \* _known_strides
    win_out,        \* the result: dataptr and strides
    \* ---- Compiler.__init__: the preconditions
    preds,          \* proc.preds
    pr_i,           \* the precondition the loop of line 634 handles next
    known_strides,  \* Compiler._known_strides: <<name, dim>> -> CIR constant
    pr_lines,       \* the lines added to the body, each with its precondition
    pr_strides,     \* get_strides(A) while the body is compiled
    \* ---- ext_compile_to_strings
    lib_procs,      \* the procedures of the library: name, instr, callees, body
    lib_roots,      \* the proc_list handed to ext_compile_to_strings
    lib_list,       \* proc_list after find_all_subprocs and the sort by name
    lib_i,          \* the procedure the loop of line 428 handles next
    lib_acc,        \* the lists and sets the loop fills
    lib_comp,       \* the local variable comp: the last Compiler made, if any
    lib_ret,        \* the value returned: header, body, ext lines
    \* ---- cursors
    cur_procs,      \* the procedure versions made so far: version -> LoopIR tree
    cur_refs,       \* version -> "strong", "dropped" or "collected"
    cursor,         \* the cursor the program holds
    cur_op,         \* the last operation and its argument
    cur_res,        \* what the last operation returned besides a cursor
    \* ---- a loop divided with a guarded tail, as it runs
    dl_N, dl_k,     \* the bound of the loop and the divisor
    dl_at,          \* the position of the running loop nest
    dl_trace,       \* the values of j the body has run with, in order
    \* ---- simplify_cir
    sc_e,           \* the CIR expression
    sc_out,         \* simplify_cir(sc_e)
    \* ---- loop modes
    lm_modes,       \* three loop modes
    lm_ret,         \* cuda_can_nest_in for each pair of them
    \* ---- lowering of statements
    lw_s,           \* the statement given to comp_s
    lw_c,           \* the compiler
    \* ---- collective index expressions
    coll_x,         \* the value of the base expression
    coll_e,         \* the CollIndexExpr
    coll_prev,      \* the CollIndexExpr before the last operator
    coll_hist,      \* the operators applied, in order
    \* ---- the C text of index expressions
    cc_e,           \* the CIR expression given to comp_cir
    cc_s,           \* the text comp_cir returned
    \* ---- domain completion
    dc_source,      \* source_domain
    dc_target,      \* target_domain
    dc_partial,     \* allow_partial_source
    dc_op           \* the DomainCompletionOp constructed, or the exception

fdVars == <<num, quot, fd_ret>>
divVars == <<range_env, idx_e, lowered, needed_helpers>>
subVars == <<calls, instr, proc_list, all_procs, seen, stack, next_root, sub_ret>>
smVars == <<body>>
nmVars == <<names, self_env, tab, n_syms, nm_last, nm_given>>
ppVars == <<pp_env, pp_tab, pp_scope, pp_n>>
sigVars == <<sig_args, sig_writes, sig_i, sig_names, arg_strs, window_defns>>
stVars == <<st_shape, st_idx, st_val, st_strides, st_offset>>
winVars == <<win_e, win_typ, win_known, win_out>>
prVars == <<preds, pr_i, known_strides, pr_lines, pr_strides>>
libVars == <<lib_procs, lib_roots, lib_list, lib_i, lib_acc, lib_comp, lib_ret>>
curVars == <<cur_procs, cur_refs, cursor, cur_op, cur_res>>
dlVars == <<dl_N, dl_k, dl_at, dl_trace>>
scVars == <<sc_e, sc_out>>
lmVars == <<lm_modes, lm_ret>>
lwVars == <<lw_s, lw_c>>
collVars == <<coll_x, coll_e, coll_prev, coll_hist>>
ccVars == <<cc_e, cc_s>>
dcVars == <<dc_source, dc_target, dc_partial, dc_op>>
vars == <<pc, fdVars, divVars, subVars, smVars, nmVars, ppVars, sigVars, stVars, winVars,
          prVars, libVars, curVars, dlVars, scVars, lmVars, lwVars,
          collVars, ccVars, dcVars>>

fdIdle == num = 0 /\ quot = 0 /\ fd_ret = 0
divIdle == range_env = 0 /\ idx_e = 0 /\ lowered = 0 /\ needed_helpers = 0
subIdle ==
    /\ calls = 0 /\ instr = 0 /\ proc_list = 0 /\ all_procs = 0
    /\ seen = 0 /\ stack = 0 /\ next_root = 0 /\ sub_ret = 0
smIdle == body = 0
ppIdle == pp_env = 0 /\ pp_tab = 0 /\ pp_scope = 0 /\ pp_n = 0
sigIdle ==
    /\ sig_args = 0 /\ sig_writes = 0 /\ sig_i = 0
    /\ sig_names = 0 /\ arg_strs = 0 /\ window_defns = 0
stIdle ==
    /\ st_shape = 0 /\ st_idx = 0 /\ st_val = 0 /\ st_strides = 0 /\ st_offset = 0
winIdle == win_e = 0 /\ win_typ = 0 /\ win_known = 0 /\ win_out = 0
prIdle ==
    /\ preds = 0 /\ pr_i = 0 /\ known_strides = 0 /\ pr_lines = 0 /\ pr_strides = 0
libIdle ==
    /\ lib_procs = 0 /\ lib_roots = 0 /\ lib_list = 0 /\ lib_i = 0
    /\ lib_acc = 0 /\ lib_comp = 0 /\ lib_ret = 0
curIdle ==
    /\ cur_procs = 0 /\ cur_refs = 0 /\ cursor = 0 /\ cur_op = 0 /\ cur_res = 0
dlIdle == dl_N = 0 /\ dl_k = 0 /\ dl_at = 0 /\ dl_trace = 0
scIdle == sc_e = 0 /\ sc_out = 0
lmIdle == lm_modes = 0 /\ lm_ret = 0
lwIdle == lw_s = 0 /\ lw_c = 0
collIdle == coll_x = 0 /\ coll_e = 0 /\ coll_prev = 0 /\ coll_hist = 0
ccIdle == cc_e = 0 /\ cc_s = 0
dcIdle == dc_source = 0 /\ dc_target = 0 /\ dc_partial = 0 /\ dc_op = 0
nmIdle == names = 0 /\ self_env = 0 /\ tab = 0 /\ n_syms = 0 /\ nm_last = 0 /\ nm_given = 0

\* Init of a specification: the components it does not use are idle.
Idle(used) ==
    /\ IF "fd" \in used THEN TRUE ELSE fdIdle
    /\ IF "div" \in used THEN TRUE ELSE divIdle
    /\ IF "sub" \in used THEN TRUE ELSE subIdle
    /\ IF "sm" \in used THEN TRUE ELSE smIdle
    /\ IF "nm" \in used THEN TRUE ELSE nmIdle
    /\ IF "pp" \in used THEN TRUE ELSE ppIdle
    /\ IF "sig" \in used THEN TRUE ELSE sigIdle
    /\ IF "st" \in used THEN TRUE ELSE stIdle
    /\ IF "win" \in used THEN TRUE ELSE winIdle
    /\ IF "pr" \in used THEN TRUE ELSE prIdle
    /\ IF "lib" \in used THEN TRUE ELSE libIdle
    /\ IF "cur" \in used THEN TRUE ELSE curIdle
    /\ IF "dl" \in used THEN TRUE ELSE dlIdle
    /\ IF "sc" \in used THEN TRUE ELSE scIdle
    /\ IF "lm" \in used THEN TRUE ELSE lmIdle
    /\ IF "lw" \in used THEN TRUE ELSE lwIdle
    /\ IF "coll" \in used THEN TRUE ELSE collIdle
    /\ IF "cc" \in used THEN TRUE ELSE ccIdle
    /\ IF "dc" \in used THEN TRUE ELSE dcIdle

\* An action of a specification leaves the other components alone.
OthersUnchanged(used) ==
    /\ IF "fd" \in used THEN TRUE ELSE UNCHANGED fdVars
    /\ IF "div" \in used THEN TRUE ELSE UNCHANGED divVars
    /\ IF "sub" \in used THEN TRUE ELSE UNCHANGED subVars
    /\ IF "sm" \in used THEN TRUE ELSE UNCHANGED smVars
    /\ IF "nm" \in used THEN TRUE ELSE UNCHANGED nmVars
    /\ IF "pp" \in used THEN TRUE ELSE UNCHANGED ppVars
    /\ IF "sig" \in used THEN TRUE ELSE UNCHANGED sigVars
    /\ IF "st" \in used THEN TRUE ELSE UNCHANGED stVars
    /\ IF "win" \in used THEN TRUE ELSE UNCHANGED winVars
    /\ IF "pr" \in used THEN TRUE ELSE UNCHANGED prVars
    /\ IF "lib" \in used THEN TRUE ELSE UNCHANGED libVars
    /\ IF "cur" \in used THEN TRUE ELSE UNCHANGED curVars
    /\ IF "dl" \in used THEN TRUE ELSE UNCHANGED dlVars
    /\ IF "sc" \in used THEN TRUE ELSE UNCHANGED scVars
    /\ IF "lm" \in used THEN TRUE ELSE UNCHANGED lmVars
    /\ IF "lw" \in used THEN TRUE ELSE UNCHANGED lwVars
    /\ IF "coll" \in used THEN TRUE ELSE UNCHANGED collVars
    /\ IF "cc" \in used THEN TRUE ELSE UNCHANGED ccVars
    /\ IF "dc" \in used THEN TRUE ELSE UNCHANGED dcVars

(***************************************************************************)
(* Bounds of the model.                                                    *)
(***************************************************************************)
MaxNum == 12        \* |dividend| handed to the emitted helper
MaxQuot == 5        \* largest divisor
MaxConst == 2       \* largest integer literal of an enumerated index expression
MaxIdx == 3         \* extent of the enumerated loop ranges
NProcs == 3         \* procedures of a library
MaxRoots == 2       \* length of the list handed to find_all_subprocs
MaxStmts == 3       \* statements of a procedure body, nested ones included
MaxSyms == 4        \* symbols declared by a procedure
MaxDepth == 2       \* nesting depth of the blocks of a procedure
MaxArgs == 2        \* arguments of a procedure
MaxWrites == 2      \* writes found in a procedure body
MaxRank == 3        \* dimensions of a tensor
MaxSize == 3        \* run-time value of a size
MaxPreds == 2       \* preconditions of a procedure
NLib == 2
MaxHop == 2         \* the distance of a move of a cursor
MaxInsert == 1      \* statements inserted at a gap at once
MaxVersions == 2    \* versions of a procedure made by rewrites
MaxBound == 8       \* the bound N of a divided loop
MaxFactor == 4      \* the factor k of divide_loop
MaxLit == 2         \* the largest literal of an expression to simplify
MaxVal == 2         \* the largest absolute value given to a variable
MaxUnits == 2       \* the block count of a cluster loop, the warp count of a block loop
MaxNest == 3        \* the nesting depth of the statement given to comp_s
MaxThreadIdx == 12  \* the largest value of the base of a CollIndexExpr
MaxModulus == 6     \* the largest divisor or modulus applied to a CollIndexExpr
MaxOps == 2         \* the number of operators applied to a CollIndexExpr
MaxCoord == 6       \* the largest coordinate of a thread domain
MaxDims == 3        \* the largest number of coordinates of a thread domain           \* procedures of a compiled library

(***************************************************************************)
(* Small arithmetic helpers.                                               *)
(***************************************************************************)
Abs(n) == IF n < 0 THEN -n ELSE n

RECURSIVE Gcd(_, _)
Gcd(a, b) == IF b = 0 THEN a ELSE Gcd(b, a % b)

\* C99 integer division: the quotient truncated toward zero.
CDiv(a, b) ==
    IF (a >= 0) = (b > 0) THEN Abs(a) \div Abs(b) ELSE -(Abs(a) \div Abs(b))

(***************************************************************************)
(* _static_helpers["exo_floor_div"]:                                       *)
(*     int off = (num>=0)? 0 : quot-1;                                     *)
(*     return (num-off)/quot;                                              *)
(***************************************************************************)
exo_floor_div_off_bad(n, q) == IF n >= 0 THEN 0 ELSE q

exo_floor_div_off(n, q) == IF n >= 0 THEN 0 ELSE q - 1

exo_floor_div(n, q) == CDiv(n - exo_floor_div_off(n, q), q)

FdInit ==
    /\ pc = "fd_call"
    /\ num \in -MaxNum..MaxNum
    /\ quot \in 1..MaxQuot
    /\ fd_ret = 0
    /\ Idle({"fd"})

FdCall ==
    /\ pc = "fd_call"
    /\ fd_ret' = exo_floor_div(num, quot)
    /\ pc' = "fd_done"
    /\ UNCHANGED <<num, quot>>
    /\ OthersUnchanged({"fd"})

FdNext == FdCall

SpecFloorDiv == FdInit /\ [][FdNext]_vars

\* C2: for every n and every q >= 1 the helper returns the floored quotient,
\* the largest integer k with k*q <= n.
C2_FloorDivIsFloor ==
    pc = "fd_done" =>
        /\ fd_ret * quot <= num
        /\ (fd_ret + 1) * quot > num

\* A negative dividend that is not a multiple of the divisor went through the
\* helper (the case where truncation and flooring differ).
C2_Witness ==
    /\ pc = "fd_done"
    /\ num < 0
    /\ quot > 1
    /\ num % quot # 0
    /\ fd_ret # CDiv(num, quot)

(***************************************************************************)
(* Python numbers.  A constant of the IR holds a Python number: an int, or *)
(* the float that Python's true division  x / y  returns.  A number is the *)
(* normalised fraction num/den together with its Python type.              *)
(***************************************************************************)
PyNum(f, n, d) ==
    LET g == Gcd(Abs(n), d)
    IN  [float |-> f, num |-> n \div g, den |-> d \div g]

PyInt(n) == [float |-> FALSE, num |-> n, den |-> 1]

PyEq(x, n) == x.num = n /\ x.den = 1           \* x == n  (1.0 == 1 in Python)

PyGt(x, n) == x.num > n * x.den                \* x > n

PyNeg(x) == [x EXCEPT !.num = -x.num]

PyFloor(n, d) == n \div d                      \* d > 0

\* operations[op](x, y), lines 87-93.  "/" is Python's true division.
operations(op, x, y) ==
    LET f == x.float \/ y.float IN
    CASE op = "+" -> PyNum(f, x.num * y.den + y.num * x.den, x.den * y.den)
      [] op = "-" -> PyNum(f, x.num * y.den - y.num * x.den, x.den * y.den)
      [] op = "*" -> PyNum(f, x.num * y.num, x.den * y.den)
      [] op = "/" -> IF y.num > 0
                     THEN PyNum(TRUE, x.num * y.den, x.den * y.num)
                     ELSE PyNum(TRUE, -(x.num * y.den), x.den * (-y.num))
      [] op = "%" ->
            \* x - floor(x / y) * y, the sign of the divisor
            LET qn == IF y.num > 0 THEN x.num * y.den ELSE -(x.num * y.den)
                qd == IF y.num > 0 THEN x.den * y.num ELSE x.den * (-y.num)
                k  == PyFloor(qn, qd)
            IN  PyNum(f, x.num * y.den - k * y.num * x.den, x.den * y.den)

\* str(val): the digits of an int; a float prints with a fractional part.
PyStr(x) ==
    IF x.float
    THEN "float(" \o ToString(x.num) \o "/" \o ToString(x.den) \o ")"
    ELSE ToString(x.num)

(***************************************************************************)
(* LoopIR index expressions and CIR expressions (core.LoopIR).             *)
(***************************************************************************)
Read(name) == [tag |-> "Read", name |-> name]
Const(v) == [tag |-> "Const", val |-> PyInt(v)]
BinOp(op, lhs, rhs) == [tag |-> "BinOp", op |-> op, lhs |-> lhs, rhs |-> rhs]
USub(arg) == [tag |-> "USub", arg |-> arg]
StrideExpr(name, dim) == [tag |-> "StrideExpr", name |-> name, dim |-> dim]

CIR_Read(name, nn) == [tag |-> "Read", name |-> name, is_non_neg |-> nn]
CIR_Const(val) == [tag |-> "Const", val |-> val]
CIR_BinOp(op, lhs, rhs, nn) ==
    [tag |-> "BinOp", op |-> op, lhs |-> lhs, rhs |-> rhs, is_non_neg |-> nn]
CIR_USub(arg, nn) == [tag |-> "USub", arg |-> arg, is_non_neg |-> nn]
CIR_Stride(name, dim) == [tag |-> "Stride", name |-> name, dim |-> dim]

\* An exception leaving a function.
Raise(exc) == [tag |-> "Raise", exc |-> exc]
IsRaise(r) == r.tag = "Raise"

(***************************************************************************)
(* The index-range environment (rewrite.range_analysis, spec section 4.2): *)
(* every symbol has an interval [lo, hi]; a bound is <<n>>, or <<>> when   *)
(* the symbol is unbounded on that side.  An expression is evaluated to an *)
(* interval by interval arithmetic; multiplication is specialised to a     *)
(* constant operand or two non-negative operands, division and modulo to a *)
(* positive constant divisor.                                              *)
(***************************************************************************)
None == <<>>
Some(n) == <<n>>
Interval(lo, hi) == [lo |-> lo, hi |-> hi]
Unbounded == Interval(None, None)

BAdd(a, b) == IF a = None \/ b = None THEN None ELSE Some(a[1] + b[1])
BNeg(a) == IF a = None THEN None ELSE Some(-a[1])
BScale(c, a) == IF a = None THEN None ELSE Some(c * a[1])
BFloorDiv(a, c) == IF a = None THEN None ELSE Some(a[1] \div c)
IsPoint(r) == r.lo # None /\ r.lo = r.hi
NonNegRange(r) == r.lo # None /\ r.lo[1] >= 0

RMul(a, b) ==
    CASE IsPoint(a) /\ a.lo[1] >= 0 -> Interval(BScale(a.lo[1], b.lo), BScale(a.lo[1], b.hi))
      [] IsPoint(a) /\ a.lo[1] < 0  -> Interval(BScale(a.lo[1], b.hi), BScale(a.lo[1], b.lo))
      [] IsPoint(b) /\ b.lo[1] >= 0 -> Interval(BScale(b.lo[1], a.lo), BScale(b.lo[1], a.hi))
      [] IsPoint(b) /\ b.lo[1] < 0  -> Interval(BScale(b.lo[1], a.hi), BScale(b.lo[1], a.lo))
      [] OTHER ->
            IF NonNegRange(a) /\ NonNegRange(b)
            THEN Interval(Some(a.lo[1] * b.lo[1]),
                          IF a.hi = None \/ b.hi = None THEN None
                          ELSE Some(a.hi[1] * b.hi[1]))
            ELSE Unbounded

RECURSIVE range_of(_, _)
range_of(e, renv) ==
    CASE e.tag = "Read" -> renv[e.name]
      [] e.tag = "Const" -> Interval(Some(e.val.num), Some(e.val.num))
      [] e.tag = "USub" ->
            LET a == range_of(e.arg, renv) IN Interval(BNeg(a.hi), BNeg(a.lo))
      [] e.tag = "BinOp" ->
            LET a == range_of(e.lhs, renv)
                b == range_of(e.rhs, renv)
            IN  CASE e.op = "+" -> Interval(BAdd(a.lo, b.lo), BAdd(a.hi, b.hi))
                  [] e.op = "-" -> Interval(BAdd(a.lo, BNeg(b.hi)), BAdd(a.hi, BNeg(b.lo)))
                  [] e.op = "*" -> RMul(a, b)
                  [] e.op = "/" ->
                        IF IsPoint(b) /\ b.lo[1] > 0
                        THEN Interval(BFloorDiv(a.lo, b.lo[1]), BFloorDiv(a.hi, b.lo[1]))
                        ELSE Unbounded
                  [] e.op = "%" ->
                        IF IsPoint(b) /\ b.lo[1] > 0
                        THEN Interval(Some(0), Some(b.lo[1] - 1))
                        ELSE Unbounded
                  [] OTHER -> Unbounded
      [] OTHER -> Unbounded

\* range_env.check_expr_bound(0, IndexRangeEnvironment.leq, e): 0 <= e is proven.
check_expr_bound_0_leq(e, renv) == NonNegRange(range_of(e, renv))

(***************************************************************************)
(* lift_to_cir, lines 67-84.                                               *)
(***************************************************************************)
RECURSIVE lift_to_cir(_, _)
lift_to_cir(e, renv) ==
    LET is_non_neg == check_expr_bound_0_leq(e, renv) IN
    CASE e.tag = "Read" -> CIR_Read(e.name, is_non_neg)
      [] e.tag = "Const" -> CIR_Const(e.val)
      [] e.tag = "BinOp" ->
            CIR_BinOp(e.op, lift_to_cir(e.lhs, renv), lift_to_cir(e.rhs, renv), is_non_neg)
      [] e.tag = "USub" -> CIR_USub(lift_to_cir(e.arg, renv), is_non_neg)
      [] OTHER -> Raise("AssertionError")

(***************************************************************************)
(* simplify_cir, lines 96-142.  An assertion that fails, or a division of  *)
(* two constants by zero, leaves the function as an exception.             *)
(***************************************************************************)
IsConst(e, n) == e.tag = "Const" /\ PyEq(e.val, n)

\* the BinOp case that hands back the operand as it was given, not as it
\* was simplified, when the other operand is 1
simplify_binop_given(e, lhs, rhs) ==
    IF lhs.tag = "Const" /\ rhs.tag = "Const" THEN
        IF e.op \in {"/", "%"} /\ rhs.val.num = 0
        THEN Raise("ZeroDivisionError")
        ELSE CIR_Const(operations(e.op, lhs.val, rhs.val))
    ELSE IF IsConst(lhs, 0) /\ e.op = "+" THEN rhs
    ELSE IF IsConst(lhs, 0) /\ e.op \in {"*", "/"} THEN CIR_Const(PyInt(0))
    ELSE IF IsConst(lhs, 0) /\ e.op # "-" THEN Raise("AssertionError")
    ELSE IF IsConst(rhs, 0) /\ e.op \in {"+", "-"} THEN lhs
    ELSE IF IsConst(rhs, 0) /\ e.op = "*" THEN CIR_Const(PyInt(0))
    ELSE IF IsConst(rhs, 0) THEN Raise("AssertionError")
    ELSE IF IsConst(lhs, 1) /\ e.op = "*" THEN e.rhs
    ELSE IF IsConst(rhs, 1) /\ e.op \in {"*", "/"} THEN e.lhs
    ELSE CIR_BinOp(e.op, lhs, rhs, e.is_non_neg)

\* lines 104-133: the BinOp case, both operands already simplified
simplify_binop(e, lhs, rhs) ==
    IF lhs.tag = "Const" /\ rhs.tag = "Const" THEN
        IF e.op \in {"/", "%"} /\ rhs.val.num = 0
        THEN Raise("ZeroDivisionError")
        ELSE CIR_Const(operations(e.op, lhs.val, rhs.val))
    ELSE IF IsConst(lhs, 0) /\ e.op = "+" THEN rhs
    ELSE IF IsConst(lhs, 0) /\ e.op \in {"*", "/"} THEN CIR_Const(PyInt(0))
    ELSE IF IsConst(lhs, 0) /\ e.op # "-" THEN Raise("AssertionError")
    ELSE IF IsConst(rhs, 0) /\ e.op \in {"+", "-"} THEN lhs
    ELSE IF IsConst(rhs, 0) /\ e.op = "*" THEN CIR_Const(PyInt(0))
    ELSE IF IsConst(rhs, 0) THEN Raise("AssertionError")
    ELSE IF IsConst(lhs, 1) /\ e.op = "*" THEN rhs
    ELSE IF IsConst(rhs, 1) /\ e.op \in {"*", "/"} THEN lhs
    ELSE CIR_BinOp(e.op, lhs, rhs, e.is_non_neg)

RECURSIVE simplify_cir(_)
simplify_cir(e) ==
    CASE e.tag \in {"Read", "Const", "Stride"} -> e
      [] e.tag = "BinOp" ->
            LET lhs == simplify_cir(e.lhs) IN
            IF IsRaise(lhs) THEN lhs
            ELSE LET rhs == simplify_cir(e.rhs) IN
                 IF IsRaise(rhs) THEN rhs ELSE simplify_binop(e, lhs, rhs)
      [] e.tag = "USub" ->
            LET arg == simplify_cir(e.arg) IN
            IF IsRaise(arg) THEN arg
            ELSE IF arg.tag = "USub" THEN arg.arg
            ELSE IF arg.tag = "Const" THEN [arg EXCEPT !.val = PyNeg(arg.val)]
            ELSE [e EXCEPT !.arg = arg]
      [] OTHER -> Raise("AssertionError")

(***************************************************************************)
(* Emitted C text is a sequence of tokens.                                 *)
(***************************************************************************)
Paren(s) == <<"(">> \o s \o <<")">>
Toks(s) == {s[i] : i \in DOMAIN s}

\* op_prec, lines 44-64
op_prec(op) ==
    CASE op = "or" -> 10
      [] op = "and" -> 20
      [] op = "==" -> 30
      [] op \in {"<", ">", "<=", ">="} -> 40
      [] op \in {"+", "-"} -> 50
      [] op \in {"*", "/", "%"} -> 60
      [] op = "~" -> 70

\* _call_static_helper, lines 1319-1321: the call text; the helper's name is
\* added to _needed_helpers (the "helpers" field of a compiled expression).
call_static_helper(helper, lhs, rhs) ==
    <<helper, "(">> \o lhs \o <<",">> \o rhs \o <<")">>

Compiled(s, helpers) == [tag |-> "Compiled", s |-> s, helpers |-> helpers]

(***************************************************************************)
(* Compiler.comp_cir, lines 794-829.                                       *)
(***************************************************************************)
\* lines 811-813: the dividend lets the division be the native C "/"
native_div_cir_unchecked(lhs) ==
    \/ lhs.tag \in {"Read", "BinOp"}
    \/ lhs.tag = "Const" /\ PyGt(lhs.val, 0)

native_div_cir(lhs) ==
    \/ lhs.tag \in {"Read", "BinOp"} /\ lhs.is_non_neg
    \/ lhs.tag = "Const" /\ PyGt(lhs.val, 0)

RECURSIVE comp_cir(_, _, _)
comp_cir(e, env, prec) ==
    CASE e.tag = "Read" -> Compiled(<<env[e.name]>>, {})
      [] e.tag = "Const" -> Compiled(<<PyStr(e.val)>>, {})
      [] e.tag = "BinOp" ->
            LET local_prec == op_prec(e.op)
                lhs == comp_cir(e.lhs, env, local_prec)
                rhs0 == comp_cir(e.rhs, env, local_prec)
                rhs == IF e.rhs.tag = "BinOp" /\ e.op \in {"-", "/"}
                       THEN Paren(rhs0.s) ELSE rhs0.s
                hs == lhs.helpers \cup rhs0.helpers
                s == lhs.s \o <<e.op>> \o rhs
            IN  IF e.op = "/" THEN
                    IF native_div_cir(e.lhs)
                    THEN Compiled(Paren(lhs.s \o <<"/">> \o rhs), hs)
                    ELSE Compiled(call_static_helper("exo_floor_div", lhs.s, rhs),
                                  hs \cup {"exo_floor_div"})
                ELSE Compiled(IF local_prec < prec THEN Paren(s) ELSE s, hs)
      [] e.tag = "Stride" ->
            Compiled(<<e.name, ".strides[", ToString(e.dim), "]">>, {})
      [] e.tag = "USub" ->
            LET a == comp_cir(e.arg, env, op_prec("~"))
            IN  Compiled(<<"-">> \o a.s, a.helpers)

(***************************************************************************)
(* Types of the symbols in scope (envtyp).                                 *)
(***************************************************************************)
T_index == [kind |-> "index"]
T_size == [kind |-> "size"]
T_bool == [kind |-> "bool"]
T_stride == [kind |-> "stride"]
T_Scalar(base) == [kind |-> "scalar", base |-> base]
T_Tensor(base, shape, win) ==
    [kind |-> "tensor", base |-> base, shape |-> shape, is_win |-> win]

is_win(typ) == typ.kind = "tensor" /\ typ.is_win
is_numeric(typ) == typ.kind \in {"scalar", "tensor"}
is_indexable(typ) == typ.kind \in {"index", "size"}

(***************************************************************************)
(* Compiler.tensor_strides, lines 849-859.                                 *)
(***************************************************************************)
Reversed(q) == [i \in 1..Len(q) |-> q[Len(q) + 1 - i]]

\* the loop of lines 854-856 over rest = reversed(szs[:-1])
RECURSIVE tensor_strides_loop(_, _, _)
tensor_strides_loop(rest, strides, s) ==
    IF rest = <<>> THEN strides
    ELSE tensor_strides_loop(Tail(rest), Append(strides, s),
                             CIR_BinOp("*", Head(rest), s, TRUE))

tensor_strides_unreversed(shape, renv) ==
    LET szs == [i \in 1..Len(shape) |-> lift_to_cir(shape[i], renv)]
    IN  tensor_strides_loop(Reversed(SubSeq(szs, 1, Len(szs) - 1)),
                            <<CIR_Const(PyInt(1))>>, szs[Len(szs)])

tensor_strides(shape, renv) ==
    LET szs == [i \in 1..Len(shape) |-> lift_to_cir(shape[i], renv)]
    IN  Reversed(tensor_strides_loop(Reversed(SubSeq(szs, 1, Len(szs) - 1)),
                                     <<CIR_Const(PyInt(1))>>, szs[Len(szs)]))

(***************************************************************************)
(* Compiler.get_strides, lines 862-873.  known is _known_strides, a table  *)
(* keyed by <<name, dim>>; dimensions count from 0 as in the source.       *)
(***************************************************************************)
get_strides(name, typ, known, renv) ==
    IF is_win(typ)
    THEN [i \in 1..Len(typ.shape) |->
            IF <<name, i - 1>> \in DOMAIN known
            THEN known[<<name, i - 1>>]
            ELSE CIR_Stride(name, i - 1)]
    ELSE tensor_strides(typ.shape, renv)

(***************************************************************************)
(* Compiler.get_idx_offset, lines 875-883.                                 *)
(***************************************************************************)
RECURSIVE idx_offset_loop(_, _, _)
idx_offset_loop(idx, strides, acc) ==
    IF idx = <<>> \/ strides = <<>> THEN acc
    ELSE idx_offset_loop(Tail(idx), Tail(strides),
            CIR_BinOp("+", acc, CIR_BinOp("*", Head(idx), Head(strides), TRUE), TRUE))

get_idx_offset(name, typ, idx, known, renv) ==
    LET strides == get_strides(name, typ, known, renv) IN
    IF Len(strides) # Len(idx) THEN Raise("AssertionError")
    ELSE idx_offset_loop(Tail(idx), Tail(strides),
                         CIR_BinOp("*", idx[1], strides[1], TRUE))

(***************************************************************************)
(* Compiler.access_str, lines 831-840.  cc is the compiler: its env,       *)
(* envtyp, range_env and _known_strides.                                   *)
(***************************************************************************)
access_str(nm, idx_list, cc) ==
    LET type == cc.envtyp[nm]
        cirs == [i \in 1..Len(idx_list) |-> lift_to_cir(idx_list[i], cc.range_env)]
        idx_expr == get_idx_offset(nm, type, cirs, cc.known_strides, cc.range_env)
        simp == IF IsRaise(idx_expr) THEN idx_expr ELSE simplify_cir(idx_expr)
    IN  IF IsRaise(simp) THEN simp
        ELSE LET c == comp_cir(simp, cc.env, 0)
                 buf == cc.env[nm]
             IN  IF ~is_win(type)
                 THEN Compiled(<<buf, "[">> \o c.s \o <<"]">>, c.helpers)
                 ELSE Compiled(<<buf, ".data[">> \o c.s \o <<"]">>, c.helpers)

(***************************************************************************)
(* Compiler.comp_e, lines 1228-1317, on index- and bool-typed expressions  *)
(* (Read of an index symbol, integer Const, BinOp, USub, StrideExpr).      *)
(***************************************************************************)
c_op(op) == IF op = "and" THEN "&&" ELSE IF op = "or" THEN "||" ELSE op

RECURSIVE comp_e(_, _, _)
comp_e(e, cc, prec) ==
    CASE e.tag = "Read" -> Compiled(<<cc.env[e.name]>>, {})
      [] e.tag = "Const" -> Compiled(<<ToString(e.val.num)>>, {})
      [] e.tag = "BinOp" ->
            LET int_div == e.op = "/"
                local_prec == IF int_div THEN 0 ELSE op_prec(e.op)
                lhs == comp_e(e.lhs, cc, local_prec)
                rhs == comp_e(e.rhs, cc, local_prec + 1)
                hs == lhs.helpers \cup rhs.helpers
                s == lhs.s \o <<c_op(e.op)>> \o rhs.s
            IN  IF int_div THEN
                    IF check_expr_bound_0_leq(e, cc.range_env)
                    THEN Compiled(Paren(Paren(lhs.s) \o <<"/">> \o Paren(rhs.s)), hs)
                    ELSE Compiled(call_static_helper("exo_floor_div", lhs.s, rhs.s),
                                  hs \cup {"exo_floor_div"})
                ELSE Compiled(IF local_prec < prec THEN Paren(s) ELSE s, hs)
      [] e.tag = "USub" ->
            LET a == comp_e(e.arg, cc, op_prec("~"))
            IN  Compiled(<<"-">> \o a.s, a.helpers)
      [] e.tag = "StrideExpr" ->
            LET stride == get_strides(e.name, cc.envtyp[e.name],
                                      cc.known_strides, cc.range_env)[e.dim + 1]
            IN  comp_cir(simplify_cir(stride), cc.env, 0)

(***************************************************************************)
(* SpecDiv: an index division  dividend / q  is lowered, as the index of   *)
(* an access A[dividend / q] (access_str: lift_to_cir, simplify_cir,       *)
(* comp_cir) or as an index-typed value such as a loop bound (comp_e).     *)
(* The type checker only admits a positive integer literal as divisor or   *)
(* modulus.                                                                *)
(***************************************************************************)
DivSyms == {"i", "j"}

\* the ranges a symbol can have: a loop iterator of seq(0, MaxIdx), one of
\* seq(-MaxIdx, MaxIdx + 1), a size argument (>= 1), an index argument
RangeChoices ==
    { Interval(Some(0), Some(MaxIdx - 1)), Interval(Some(-MaxIdx), Some(MaxIdx)),
      Interval(Some(1), None), Unbounded }

DivLeaves == {Read(v) : v \in DivSyms} \cup {Const(c) : c \in -1..MaxConst}

Dividends ==
    DivLeaves
    \cup {BinOp(op, a, b) : op \in {"+", "-", "*"}, a \in DivLeaves, b \in DivLeaves}
    \cup {BinOp("%", a, Const(c)) : a \in DivLeaves, c \in 1..MaxConst}
    \cup {USub(a) : a \in DivLeaves}

\* the compiler while it lowers the body: A is a dense 1-d tensor
DivCompiler ==
    [env |-> [n \in DivSyms \cup {"A"} |-> n],
     envtyp |-> [n \in DivSyms \cup {"A"} |->
                    IF n = "A" THEN T_Tensor("f32", <<Const(8)>>, FALSE) ELSE T_index],
     range_env |-> range_env,
     known_strides |-> <<>>]

DivInit ==
    /\ pc = "div_start"
    /\ range_env \in [DivSyms -> RangeChoices]
    /\ idx_e \in {BinOp("/", d, Const(q)) : d \in Dividends, q \in 1..MaxQuot}
    /\ lowered = <<>>
    /\ needed_helpers = {}
    /\ Idle({"div"})

\* comp_e / comp_s reach an access A[idx_e]
DivAccess ==
    /\ pc = "div_start"
    /\ lowered' = access_str("A", <<idx_e>>, DivCompiler)
    /\ needed_helpers' = IF IsRaise(lowered') THEN needed_helpers
                         ELSE needed_helpers \cup lowered'.helpers
    /\ pc' = "div_cir"
    /\ UNCHANGED <<range_env, idx_e>>
    /\ OthersUnchanged({"div"})

\* comp_e on the index-typed expression idx_e
DivValue ==
    /\ pc = "div_start"
    /\ lowered' = comp_e(idx_e, DivCompiler, 0)
    /\ needed_helpers' = needed_helpers \cup lowered'.helpers
    /\ pc' = "div_e"
    /\ UNCHANGED <<range_env, idx_e>>
    /\ OthersUnchanged({"div"})

DivNext == DivAccess \/ DivValue

SpecDiv == DivInit /\ [][DivNext]_vars

DivNative == lowered.tag = "Compiled" /\ "/" \in Toks(lowered.s)
DivHelper == lowered.tag = "Compiled" /\ "exo_floor_div" \in Toks(lowered.s)
DividendProven == check_expr_bound_0_leq(idx_e.lhs, range_env)
DividendPosConst == idx_e.lhs.tag = "Const" /\ idx_e.lhs.val.num > 0

\* C1: a lowered integer division is the native C "/" only when the range
\* environment proves the dividend non-negative or the dividend is a positive
\* constant; a division that is lowered with any other dividend is a call to
\* exo_floor_div, which is recorded as a needed helper.
C1_NativeDivOnlyNonNeg ==
    pc \in {"div_cir", "div_e"} =>
        /\ DivNative => DividendProven \/ DividendPosConst
        /\ (DivNative \/ DivHelper) /\ ~DividendProven /\ ~DividendPosConst
              => DivHelper /\ ~DivNative /\ "exo_floor_div" \in needed_helpers

\* An index whose dividend ranges over negative values was lowered through the
\* helper by comp_cir.
C1_Witness ==
    /\ pc = "div_cir"
    /\ idx_e.lhs = Read("i")
    /\ range_env["i"] = Interval(Some(-MaxIdx), Some(MaxIdx))
    /\ DivHelper
    /\ ~DivNative

(***************************************************************************)
(* find_all_subprocs, lines 145-185.  walk is recursive; its active calls  *)
(* are the frames of stack, each with the procedure, the visited set it    *)
(* was called with and the subprocedures its for loop has still to take.   *)
(* The loop iterates over a Python set: any order.                         *)
(***************************************************************************)
Procs == 1..NProcs

\* LoopIR_SubProcs(proc).result(), lines 145-162: the callees of the body,
\* or nothing for a procedure with an instr record
LoopIR_SubProcs(proc) == IF proc \in instr THEN {} ELSE calls[proc]

WalkFrame(proc, visited, todo) == [proc |-> proc, visited |-> visited, todo |-> todo]

SubInit ==
    /\ pc = "sub_loop"
    /\ calls \in [Procs -> SUBSET Procs]
    /\ instr \in SUBSET Procs
    /\ proc_list \in UNION {[1..n -> Procs] : n \in 1..MaxRoots}
    /\ all_procs = <<>>
    /\ seen = {}
    /\ stack = <<>>
    /\ next_root = 1
    /\ sub_ret = <<>>
    /\ Idle({"sub"})

\* lines 170-171: walk(proc, visited) returns at once on a seen procedure
\* lines 173-176: else it records the procedure and starts its loop
walk_enter(proc, visited, stk) ==
    IF proc \in seen
    THEN /\ stack' = stk
         /\ UNCHANGED <<all_procs, seen>>
    ELSE /\ all_procs' = Append(all_procs, proc)
         /\ seen' = seen \cup {proc}
         /\ stack' = Append(stk, WalkFrame(proc, visited, LoopIR_SubProcs(proc)))

\* the test of line 177, as written
in_visited(sp, top) == sp \in top.visited

\* lines 181-182: for proc in proc_list: walk(proc, set())
SubRoot ==
    /\ pc = "sub_loop"
    /\ stack = <<>>
    /\ next_root <= Len(proc_list)
    /\ walk_enter(proc_list[next_root], {}, stack)
    /\ next_root' = next_root + 1
    /\ UNCHANGED <<pc, calls, instr, proc_list, sub_ret>>
    /\ OthersUnchanged({"sub"})

\* lines 176-179: one iteration of the loop of the innermost walk
SubStep ==
    /\ pc = "sub_loop"
    /\ stack # <<>>
    /\ LET top == stack[Len(stack)] IN
       \E sp \in top.todo :
          LET stk == [stack EXCEPT ![Len(stack)].todo = top.todo \ {sp}] IN
          IF in_visited(sp, top)
          THEN /\ pc' = "sub_raised"           \* ValueError: found call cycle
               /\ UNCHANGED <<all_procs, seen, stack>>
          ELSE /\ walk_enter(sp, top.visited \cup {top.proc}, stk)
               /\ pc' = pc
    /\ UNCHANGED <<calls, instr, proc_list, next_root, sub_ret>>
    /\ OthersUnchanged({"sub"})

\* the loop of the innermost walk is over: it returns
SubReturn ==
    /\ pc = "sub_loop"
    /\ stack # <<>>
    /\ stack[Len(stack)].todo = {}
    /\ stack' = SubSeq(stack, 1, Len(stack) - 1)
    /\ UNCHANGED <<pc, calls, instr, proc_list, all_procs, seen, next_root, sub_ret>>
    /\ OthersUnchanged({"sub"})

\* line 185: return list(reversed(all_procs))
SubFinish ==
    /\ pc = "sub_loop"
    /\ stack = <<>>
    /\ next_root > Len(proc_list)
    /\ sub_ret' = Reversed(all_procs)
    /\ pc' = "sub_returned"
    /\ UNCHANGED <<calls, instr, proc_list, all_procs, seen, stack, next_root>>
    /\ OthersUnchanged({"sub"})

SubNext == SubRoot \/ SubStep \/ SubReturn \/ SubFinish

SpecSubprocs == SubInit /\ [][SubNext]_vars

\* The call graph of the claim: from the given procedures, Call edges followed
\* through procedures without an instr record.
RECURSIVE ReachN(_, _)
ReachN(S, n) ==
    IF n = 0 THEN S
    ELSE ReachN(S \cup UNION {LoopIR_SubProcs(q) : q \in S}, n - 1)
ReachFrom(S) == ReachN(S, NProcs)
Roots == {proc_list[i] : i \in DOMAIN proc_list}
OnCycle(q) == q \in ReachFrom(LoopIR_SubProcs(q))
HasCallCycle == \E q \in ReachFrom(Roots) : OnCycle(q)
HasSelfCall == \E q \in ReachFrom(Roots) : q \in LoopIR_SubProcs(q)

\* C3: find_all_subprocs raises for every input whose call graph has a cycle
\* of any length (a procedure calling itself included) and returns normally
\* for every acyclic one.
C3_CyclesRejected ==
    /\ pc = "sub_returned" => ~HasCallCycle
    /\ pc = "sub_raised" => HasCallCycle

\* What the code does ensure: it raises only on a cyclic graph, and it returns
\* only when every cycle of the graph is a procedure calling itself.
Sub_RaisesOnlyOnCycle == pc = "sub_raised" => HasCallCycle
Sub_LongCyclesRejected ==
    pc = "sub_returned" =>
        \A q \in ReachFrom(Roots) :
            OnCycle(q) => q \in LoopIR_SubProcs(q)

(***************************************************************************)
(* Statements of a procedure body, as far as static_memory_check looks at  *)
(* them: Alloc (with the kind of its memory), Call (with the callee's      *)
(* instr), For, If (a with-statement is an If too), and any other          *)
(* statement.                                                              *)
(***************************************************************************)
S_Alloc(static) == [tag |-> "Alloc", static |-> static]
S_Call(f_instr) == [tag |-> "Call", f_instr |-> f_instr]
S_For(b) == [tag |-> "For", body |-> b]
S_If(b, o) == [tag |-> "If", body |-> b, orelse |-> o]
S_Pass == [tag |-> "Pass"]

LeafStmts ==
    {S_Alloc(m) : m \in BOOLEAN} \cup {S_Call(i) : i \in BOOLEAN} \cup {S_Pass}

\* per number of nodes n = 0, 1, ...: the blocks and the statements of exactly
\* n nodes; level n is built from the levels below it
StmtLevel(t, n) ==
    LET blocks(k) == t[k + 1].blocks
        stmts == (IF n = 1 THEN LeafStmts ELSE {})
                 \cup {S_For(b) : b \in blocks(n - 1)}
                 \cup UNION {{S_If(b, o) : b \in blocks(k), o \in blocks(n - 1 - k)} :
                                k \in 0..(n - 1)}
    IN  [stmts |-> stmts,
         blocks |-> {<<st>> : st \in stmts}
                    \cup UNION {{<<st>> \o rest : st \in t[k + 1].stmts,
                                                 rest \in blocks(n - k)} :
                                   k \in 1..(n - 1)}]

RECURSIVE StmtLevels(_)
StmtLevels(n) ==
    IF n = 0 THEN <<[stmts |-> {}, blocks |-> {<<>>}]>>
    ELSE LET t == StmtLevels(n - 1) IN Append(t, StmtLevel(t, n))

Bodies ==
    LET t == StmtLevels(MaxStmts) IN UNION {t[n + 1].blocks : n \in 0..MaxStmts}

(***************************************************************************)
(* Compiler.static_memory_check, lines 694-724.                            *)
(***************************************************************************)
\* a variant that looks at the statements of the block only
allocates_static_memory_flat(stmts) ==
    \E i \in DOMAIN stmts : stmts[i].tag = "Alloc" /\ stmts[i].static

RECURSIVE allocates_static_memory(_)
allocates_static_memory(stmts) ==
    \E i \in DOMAIN stmts :
        LET st == stmts[i] IN
        CASE st.tag = "Alloc" -> st.static
          [] st.tag = "For" -> allocates_static_memory(st.body)
          [] st.tag = "If" ->
                allocates_static_memory(st.body) \/ allocates_static_memory(st.orelse)
          [] OTHER -> FALSE

RECURSIVE is_leaf_proc(_)
is_leaf_proc(stmts) ==
    \A i \in DOMAIN stmts :
        LET st == stmts[i] IN
        CASE st.tag = "Call" -> st.f_instr
          [] st.tag = "For" -> is_leaf_proc(st.body)
          [] st.tag = "If" -> is_leaf_proc(st.body) /\ is_leaf_proc(st.orelse)
          [] OTHER -> TRUE

static_memory_check(b) == ~allocates_static_memory(b) \/ is_leaf_proc(b)

SmInit ==
    /\ pc = "sm_init"
    /\ body \in Bodies
    /\ Idle({"sm"})

\* Compiler.__init__, lines 654-657: the check, then the body is lowered
SmCheck ==
    /\ pc = "sm_init"
    /\ pc' = IF ~static_memory_check(body) THEN "sm_MemGenError" ELSE "sm_comp_stmts"
    /\ UNCHANGED body
    /\ OthersUnchanged({"sm"})

SmNext == SmCheck

SpecStatic == SmInit /\ [][SmNext]_vars

\* every statement of a block, at any nesting depth
RECURSIVE AllStmts(_)
AllStmts(stmts) ==
    UNION {
        {stmts[i]} \cup
        (CASE stmts[i].tag = "For" -> AllStmts(stmts[i].body)
           [] stmts[i].tag = "If" -> AllStmts(stmts[i].body) \cup AllStmts(stmts[i].orelse)
           [] OTHER -> {})
        : i \in DOMAIN stmts}

HasStaticAlloc == \E st \in AllStmts(body) : st.tag = "Alloc" /\ st.static
HasProcCall == \E st \in AllStmts(body) : st.tag = "Call" /\ ~st.f_instr

NoSuffix == -1
EmptySuffix == -2
Name(stem, n) == [tag |-> "Name", stem |-> stem, n |-> n]

\* lines 756-760: either post-pend _1 or increment the post-pended counter
bump_name(s) ==
    IF s.n = NoSuffix THEN Name(s.stem, 1)
    ELSE IF s.n = EmptySuffix THEN Raise("ValueError")
    ELSE Name(s.stem, s.n + 1)

(***************************************************************************)
(* collections.ChainMap: a sequence of maps, the innermost last.  Lookups  *)
(* search from the innermost map outwards, writes go to the innermost map. *)
(***************************************************************************)
EmptyMap == <<>>
MapSet(m, k, v) == [x \in DOMAIN m \cup {k} |-> IF x = k THEN v ELSE m[x]]
ChainHas(chain, k) == \E i \in DOMAIN chain : k \in DOMAIN chain[i]
ChainGet(chain, k) ==
    LET i == CHOOSE j \in DOMAIN chain :
                /\ k \in DOMAIN chain[j]
                /\ \A l \in DOMAIN chain : l > j => k \notin DOMAIN chain[l]
    IN  chain[i][k]
ChainSet(chain, k, v) == [chain EXCEPT ![Len(chain)] = MapSet(@, k, v)]
ChainKeys(chain) == UNION {DOMAIN chain[i] : i \in DOMAIN chain}
new_child(chain) == Append(chain, EmptyMap)
\* ChainMap.parents: without the innermost map; never without a map
parents(chain) == IF Len(chain) > 1 THEN SubSeq(chain, 1, Len(chain) - 1) ELSE <<EmptyMap>>

(***************************************************************************)
(* Compiler.new_varname, lines 749-771: the identifier chosen for a symbol *)
(* whose user name is strnm, and the names map after the call.             *)
(***************************************************************************)
\* a policy that bumps the recorded alias once, without the loop
fresh_name_once(nms, s) == IF ChainHas(nms, s) THEN bump_name(s) ELSE s

\* the loop of lines 755-760
RECURSIVE fresh_name(_, _)
fresh_name(nms, s) ==
    IF IsRaise(s) \/ ~ChainHas(nms, s) THEN s
    ELSE fresh_name(nms, bump_name(s))

Named(nms, ret) == [tag |-> "ok", names |-> nms, ret |-> ret]

new_varname(nms, strnm) ==
    IF ~ChainHas(nms, strnm)
    THEN Named(ChainSet(nms, strnm, strnm), strnm)
    ELSE LET s == fresh_name(nms, ChainGet(nms, strnm)) IN
         IF IsRaise(s) THEN s
         ELSE Named(ChainSet(ChainSet(nms, strnm, s), s, s), s)

(***************************************************************************)
(* SpecNames: the compiler declares symbols (arguments, allocations,       *)
(* windows: new_varname), enters a loop (push("env"), new_varname of the   *)
(* iterator, push("tab")), enters an if branch (push()) and leaves a block *)
(* (pop()).  A symbol is its user name and its unique id.                  *)
(***************************************************************************)
Sym(name, id) == [name |-> name, id |-> id]

UserNames ==
    {Name("a", NoSuffix), Name("a", 1), Name("a", EmptySuffix), Name("ctxt", NoSuffix)}

NmInit ==
    /\ pc = "nm_run"
    \* lines 584-586 and 616-617: empty maps, then the reserved "ctxt"
    /\ names = <<MapSet(EmptyMap, Name("ctxt", NoSuffix), Name("ctxt", NoSuffix))>>
    /\ self_env = <<MapSet(EmptyMap, Sym(Name("ctxt", NoSuffix), 0), Name("ctxt", NoSuffix))>>
    /\ tab = 0
    /\ n_syms = 0
    /\ nm_last = [sym |-> Sym(Name("ctxt", NoSuffix), 0), free |-> TRUE,
                  ret |-> Name("ctxt", NoSuffix)]
    /\ nm_given = MapSet(EmptyMap, Sym(Name("ctxt", NoSuffix), 0), Name("ctxt", NoSuffix))
    /\ Idle({"nm"})

\* new_varname(symbol, ...) in the maps nms / e, lines 749-771
declare(symbol, nms, e) ==
    LET r == new_varname(nms, symbol.name) IN
    IF IsRaise(r)
    THEN /\ pc' = "nm_ValueError"
         /\ UNCHANGED <<names, self_env, nm_last, nm_given>>
    ELSE /\ names' = r.names
         /\ self_env' = ChainSet(e, symbol, r.ret)
         /\ nm_last' = [sym |-> symbol, free |-> ~ChainHas(nms, symbol.name), ret |-> r.ret]
         /\ nm_given' = MapSet(nm_given, symbol, r.ret)
         /\ pc' = pc

\* an argument, an Alloc or a WindowStmt: lines 625, 971, 1147
NmDeclare ==
    /\ pc = "nm_run"
    /\ n_syms < MaxSyms
    /\ \E nm \in UserNames : declare(Sym(nm, n_syms + 1), names, self_env)
    /\ n_syms' = n_syms + 1
    /\ UNCHANGED tab
    /\ OthersUnchanged({"nm"})

\* For, lines 1102-1103 and 1140: push(only="env"), the iterator, push(only="tab")
NmEnterFor ==
    /\ pc = "nm_run"
    /\ n_syms < MaxSyms
    /\ Len(names) <= MaxDepth
    /\ \E nm \in UserNames :
          declare(Sym(nm, n_syms + 1), new_child(names), new_child(self_env))
    /\ n_syms' = n_syms + 1
    /\ tab' = tab + 1
    /\ OthersUnchanged({"nm"})

\* If, lines 1089 and 1094: push()
NmEnterIf ==
    /\ pc = "nm_run"
    /\ Len(names) <= MaxDepth
    /\ names' = new_child(names)
    /\ self_env' = new_child(self_env)
    /\ tab' = tab + 1
    /\ UNCHANGED <<pc, n_syms, nm_last, nm_given>>
    /\ OthersUnchanged({"nm"})

\* the end of a For or If body, lines 1091, 1096, 1143: pop()
NmExit ==
    /\ pc = "nm_run"
    /\ Len(names) > 1
    /\ names' = parents(names)
    /\ self_env' = parents(self_env)
    /\ tab' = IF tab > 0 THEN tab - 1 ELSE 0
    /\ UNCHANGED <<pc, n_syms, nm_last, nm_given>>
    /\ OthersUnchanged({"nm"})

NmNext == NmDeclare \/ NmEnterFor \/ NmEnterIf \/ NmExit

SpecNames == NmInit /\ [][NmNext]_vars

InScope == ChainKeys(self_env)

\* C5: two distinct symbols in scope at the same time are bound to distinct C
\* identifiers; a symbol whose user name is free in scope keeps that name; and
\* a reference to a symbol resolves to the identifier this symbol was given,
\* also after an inner block that declared the same user name has closed.
C5_DistinctIdentifiers ==
    /\ \A s1, s2 \in InScope : s1 # s2 => ChainGet(self_env, s1) # ChainGet(self_env, s2)
    /\ nm_last.free => nm_last.ret = nm_last.sym.name
    /\ \A sy \in InScope : ChainGet(self_env, sy) = nm_given[sy]

\* test_scope1: an outer a and, in a loop, an inner a were bound to different
\* identifiers; the loop has closed and a resolves to the outer identifier.
C5_Witness ==
    /\ pc = "nm_run"
    /\ Len(names) = 1
    /\ nm_last.sym \notin InScope
    /\ nm_last.sym.name = Name("a", NoSuffix)
    /\ nm_last.ret = Name("a", 1)
    /\ \E sy \in InScope : sy.name = Name("a", NoSuffix) /\ ChainGet(self_env, sy) = Name("a", NoSuffix)

(***************************************************************************)
(* The pretty-printers (SYS_ATL/LoopIR_pprint.py).  UAST_PPrinter and      *)
(* LoopIR_PPrinter have the same new_name, push and pop.  Their env is an  *)
(* Environment: a stack of dictionaries, looked up from the top down and   *)
(* written at the top.                                                     *)
(***************************************************************************)
Environment == <<EmptyMap>>
env_contains(e, k) == \E i \in DOMAIN e : k \in DOMAIN e[i]
env_getitem(e, k) ==
    LET i == CHOOSE j \in DOMAIN e :
                /\ k \in DOMAIN e[j]
                /\ \A l \in DOMAIN e : l > j => k \notin DOMAIN e[l]
    IN  e[i][k]
env_setitem(e, k, v) == [e EXCEPT ![Len(e)] = MapSet(@, k, v)]
env_push(e) == Append(e, EmptyMap)
env_pop(e) == SubSeq(e, 1, Len(e) - 1)

\* new_name, lines 113-127 and 278-292: the printed name and the env after
new_name(e, strnm) ==
    IF ~env_contains(e, strnm)
    THEN [tag |-> "ok", env |-> env_setitem(e, strnm, strnm), ret |-> strnm]
    ELSE LET s == bump_name(env_getitem(e, strnm)) IN
         IF IsRaise(s) THEN s
         ELSE [tag |-> "ok", env |-> env_setitem(e, strnm, s), ret |-> s]

PpInit ==
    /\ pc = "pp_run"
    /\ pp_env = Environment
    /\ pp_tab = 0
    /\ pp_scope = <<EmptyMap>>
    /\ pp_n = 0
    /\ Idle({"pp"})

\* new_name(symbol) in the env e, the scopes sc
pp_declare(symbol, e, sc) ==
    LET r == new_name(e, symbol.name) IN
    IF IsRaise(r)
    THEN /\ pc' = "pp_ValueError"
         /\ UNCHANGED <<pp_env, pp_scope>>
    ELSE /\ pp_env' = r.env
         /\ pp_scope' = [sc EXCEPT ![Len(sc)] = MapSet(@, symbol, r.ret)]
         /\ pc' = pc

\* a size or an argument of the procedure, an Alloc or a Free:
\* lines 138, 148, 168 and 303, 313, 335, 338
PpDeclare ==
    /\ pc = "pp_run"
    /\ pp_n < MaxSyms
    /\ \E nm \in UserNames : pp_declare(Sym(nm, pp_n + 1), pp_env, pp_scope)
    /\ pp_n' = pp_n + 1
    /\ UNCHANGED pp_tab
    /\ OthersUnchanged({"pp"})

\* ForAll, lines 182-184 and 347-349: push(only='env'), the iterator, push(only='tab')
PpEnterFor ==
    /\ pc = "pp_run"
    /\ pp_n < MaxSyms
    /\ Len(pp_env) <= MaxDepth
    /\ \E nm \in UserNames :
          pp_declare(Sym(nm, pp_n + 1), env_push(pp_env), Append(pp_scope, EmptyMap))
    /\ pp_n' = pp_n + 1
    /\ pp_tab' = pp_tab + 1
    /\ OthersUnchanged({"pp"})

\* the body of the procedure or of an If, lines 142, 172, 177 and 307, 342: push()
PpEnterBlock ==
    /\ pc = "pp_run"
    /\ Len(pp_env) <= MaxDepth
    /\ pp_env' = env_push(pp_env)
    /\ pp_scope' = Append(pp_scope, EmptyMap)
    /\ pp_tab' = pp_tab + 1
    /\ UNCHANGED <<pc, pp_n>>
    /\ OthersUnchanged({"pp"})

\* the end of a block, lines 106-108 and 271-273: pop()
PpExit ==
    /\ pc = "pp_run"
    /\ Len(pp_env) > 1
    /\ pp_env' = env_pop(pp_env)
    /\ pp_scope' = SubSeq(pp_scope, 1, Len(pp_scope) - 1)
    /\ pp_tab' = IF pp_tab > 0 THEN pp_tab - 1 ELSE 0
    /\ UNCHANGED <<pc, pp_n>>
    /\ OthersUnchanged({"pp"})

PpNext == PpDeclare \/ PpEnterFor \/ PpEnterBlock \/ PpExit

SpecPPrint == PpInit /\ [][PpNext]_vars

\* the symbols in scope, each with the name it was printed with
PpInScope == UNION {{<<sy, pp_scope[i][sy]>> : sy \in DOMAIN pp_scope[i]} : i \in DOMAIN pp_scope}

\* C6: two distinct symbols that are in scope at the same time were given two
\* distinct printed names by new_name, whatever the sequence of declarations
\* and scopes, user names that end in _<n> included.
C6_DistinctPrintedNames ==
    \A d1, d2 \in PpInScope : d1[1] # d2[1] => d1[2] # d2[2]

\* the same, for user names without a numeric suffix only
C6_DistinctIfNoUserSuffix ==
    \A d1, d2 \in PpInScope :
        (d1[1] # d2[1] /\ d1[1].name.n = NoSuffix /\ d2[1].name.n = NoSuffix
            /\ \A d \in PpInScope : d[1].name.n = NoSuffix)
        => d1[2] # d2[2]

(***************************************************************************)
(* The C signature (Compiler.__init__, lines 616-632).  C text is a        *)
(* sequence of tokens.                                                     *)
(***************************************************************************)
\* typ.ctype() (core.LoopIR; spec section 8: size/index/stride are int32_t,
\* bool is bool)
ctype(typ) ==
    CASE typ.kind \in {"size", "index", "stride"} -> "int32_t"
      [] typ.kind = "bool" -> "bool"
      [] typ.kind = "base" /\ typ.base = "f32" -> "float"
      [] typ.kind = "base" /\ typ.base = "f64" -> "double"
      [] typ.kind = "base" /\ typ.base = "i8" -> "int8_t"
      [] typ.kind = "base" /\ typ.base = "i32" -> "int32_t"

basetype(typ) == [kind |-> "base", base |-> typ.base]

\* _window_struct_shorthand, lines 316-324
window_struct_shorthand(base_type) ==
    CASE base_type.base = "f32" -> "f32"
      [] base_type.base = "f64" -> "f64"
      [] base_type.base = "i8" -> "i8"
      [] base_type.base = "i32" -> "i32"

\* _window_struct, lines 291-310: the struct's name and its data field
WindowStruct(typename, ctyp, n_dims, is_const) ==
    [name |-> <<"exo_win_", ToString(n_dims), typename>>
                 \o (IF is_const THEN <<"c">> ELSE <<>>),
     data |-> (IF is_const THEN <<"const ">> ELSE <<>>) \o <<ctyp, " * const data">>,
     n_dims |-> n_dims]

\* window_struct, lines 313-328
window_struct(base_type, n_dims, is_const) ==
    WindowStruct(window_struct_shorthand(base_type), ctype(base_type), n_dims, is_const)

\* get_window_type for a fnarg, lines 895-903: the struct
get_window_type(a, is_const) ==
    window_struct(basetype(a.type), Len(a.type.shape), is_const)

\* format_fnarg_ctype, lines 678-692
format_fnarg_ctype(a, is_const) ==
    IF a.type \in {T_size, T_index, T_bool, T_stride}
    THEN <<ctype(a.type)>>
    ELSE IF is_win(a.type)
         THEN <<"struct ">> \o get_window_type(a, is_const).name
         ELSE (IF is_const THEN <<"const ">> ELSE <<>>)
                  \o <<ctype(basetype(a.type)), "*">>

\* an argument that is const whatever the body writes
fnarg_is_const_always(a, non_const) == TRUE

\* line 626
fnarg_is_const(a, non_const) == ~(is_numeric(a.type) /\ a.name \in non_const)

fnarg(name, type) == [name |-> name, type |-> type]

SigTypes ==
    {T_size, T_index, T_bool, T_stride, T_Scalar("f32"),
     T_Tensor("f32", <<Const(2)>>, FALSE),
     T_Tensor("i8", <<Const(2)>>, TRUE),
     T_Tensor("f32", <<Const(2), Const(2)>>, TRUE)}

\* the arguments: symbols 1..n, all with the user name x
SigArgLists ==
    UNION {[1..n -> SigTypes] : n \in 0..MaxArgs}

SigArgsOf(types) == [i \in DOMAIN types |-> fnarg(Sym(Name("x", NoSuffix), i), types[i])]

\* a buffer allocated in the body
SigLocal == fnarg(Sym(Name("t", NoSuffix), 0), T_Tensor("f32", <<Const(2)>>, FALSE))

\* what the body can write: its numeric arguments and its own buffers
SigWritable(args) ==
    {<<args[i].name, args[i].type>> : i \in {j \in DOMAIN args : is_numeric(args[j].type)}}
        \cup {<<SigLocal.name, SigLocal.type>>}

SigInit ==
    /\ pc = "sig_args"
    /\ \E types \in SigArgLists : sig_args = SigArgsOf(types)
    /\ \E n \in 0..MaxWrites : sig_writes \in [1..n -> SigWritable(sig_args)]
    /\ sig_i = 1
    \* lines 616-618: reserve the first "ctxt" argument
    /\ sig_names = new_varname(<<EmptyMap>>, Name("ctxt", NoSuffix)).names
    /\ arg_strs = <<[ctype |-> <<"ctxt_name", " *">>, name |-> Name("ctxt", NoSuffix)]>>
    /\ window_defns = {}
    /\ Idle({"sig"})

\* line 620
non_const == {sig_writes[k][1] : k \in DOMAIN sig_writes}

\* one turn of the loop of lines 622-632
SigArg ==
    /\ pc = "sig_args"
    /\ sig_i <= Len(sig_args)
    /\ LET a == sig_args[sig_i]
           r == new_varname(sig_names, a.name.name)
           is_const == fnarg_is_const(a, non_const)
       IN  /\ sig_names' = r.names
           /\ arg_strs' = Append(arg_strs,
                             [ctype |-> format_fnarg_ctype(a, is_const), name |-> r.ret])
           /\ window_defns' = IF is_numeric(a.type) /\ is_win(a.type)
                              THEN window_defns \cup {get_window_type(a, is_const)}
                              ELSE window_defns
    /\ sig_i' = sig_i + 1
    /\ UNCHANGED <<pc, sig_args, sig_writes>>
    /\ OthersUnchanged({"sig"})

\* the loop is over: the signature is complete
SigDone ==
    /\ pc = "sig_args"
    /\ sig_i > Len(sig_args)
    /\ pc' = "sig_done"
    /\ UNCHANGED sigVars
    /\ OthersUnchanged({"sig"})

SigNext == SigArg \/ SigDone

SpecSig == SigInit /\ [][SigNext]_vars

\* the symbols the body writes
SigWritten == {sig_writes[k][1] : k \in DOMAIN sig_writes}
SigIsConstStruct(w) == w[Len(w)] = "c"

\* C7: in the signature a tensor (or scalar buffer) argument is a const
\* pointer, and a window argument a const window struct, exactly when the body
\* does not write its symbol; size, index, stride and bool arguments are passed
\* by value with their plain C type, without const and without a pointer.
C7_ConstIffNotWritten ==
    \A i \in 1..(Len(arg_strs) - 1) :
        LET a == sig_args[i]
            c == arg_strs[i + 1].ctype
            written == a.name \in SigWritten
        IN  CASE a.type.kind \in {"size", "index", "stride"} -> c = <<"int32_t">>
              [] a.type.kind = "bool" -> c = <<"bool">>
              [] is_win(a.type) ->
                    /\ c[1] = "struct "
                    /\ SigIsConstStruct(c) <=> ~written
                    /\ \E w \in window_defns :
                          /\ <<"struct ">> \o w.name = c
                          /\ (w.data[1] = "const ") <=> ~written
              [] OTHER ->
                    /\ (c[1] = "const ") <=> ~written
                    /\ c[Len(c)] = "*"
                    /\ "const " \notin Toks(Tail(c))

\* the signature of a procedure that writes its tensor argument and only
\* reads its window argument is complete
C7_Witness ==
    /\ pc = "sig_done"
    /\ Len(sig_args) = 2
    /\ sig_args[1].type = T_Tensor("f32", <<Const(2)>>, FALSE)
    /\ sig_args[1].name \in SigWritten
    /\ arg_strs[2].ctype = <<"float", "*">>
    /\ is_win(sig_args[2].type)
    /\ sig_args[2].name \notin SigWritten
    /\ arg_strs[3].ctype = <<"struct ", "exo_win_", "1", "i8", "c">>

(***************************************************************************)
(* SpecStrides: the strides and the linear offset of an access to a dense  *)
(* tensor A (tensor_strides, get_strides, get_idx_offset; access_str       *)
(* simplifies the offset before it is emitted).                            *)
(***************************************************************************)
\* the run-time value of a CIR expression; val gives the value of a symbol,
\* strides_of the value of the field name.strides[dim]
RECURSIVE eval_cir(_, _, _)
eval_cir(e, val, strides_of) ==
    CASE e.tag = "Const" -> e.val.num
      [] e.tag = "Read" -> val[e.name]
      [] e.tag = "Stride" -> strides_of[<<e.name, e.dim>>]
      [] e.tag = "USub" -> 0 - eval_cir(e.arg, val, strides_of)
      [] e.tag = "BinOp" ->
            LET a == eval_cir(e.lhs, val, strides_of)
                b == eval_cir(e.rhs, val, strides_of)
            IN  CASE e.op = "+" -> a + b
                  [] e.op = "-" -> a - b
                  [] e.op = "*" -> a * b
                  \* the division and the remainder of the index language,
                  \* by a positive divisor
                  [] e.op = "/" -> IF b > 0 THEN a \div b ELSE 0
                  [] e.op = "%" -> IF b > 0 THEN a % b ELSE 0

\* a size is a constant or the size argument n; an index a constant or the
\* loop iterator i of seq(0, n)
StSizes == {Const(1), Const(MaxSize), Read("n")}
StIndices == {Const(c) : c \in 0..1} \cup {Read("i")}
StRangeEnv ==
    [v \in {"n", "i"} |-> IF v = "n" THEN Interval(Some(1), None)
                          ELSE Interval(Some(0), None)]
StTensor == T_Tensor("f32", st_shape, FALSE)

StInit ==
    /\ pc = "st_start"
    /\ \E r \in 1..MaxRank :
          /\ st_shape \in [1..r -> StSizes]
          /\ st_idx \in [1..r -> StIndices]
    /\ \E n \in 1..MaxSize : \E i \in 0..(n - 1) :
          st_val = [v \in {"n", "i"} |-> IF v = "n" THEN n ELSE i]
    /\ st_strides = <<>>
    /\ st_offset = <<>>
    /\ Idle({"st"})

\* get_strides(A, typ), lines 862-873
StGetStrides ==
    /\ pc = "st_start"
    /\ st_strides' = get_strides("A", StTensor, <<>>, StRangeEnv)
    /\ pc' = "st_strides"
    /\ UNCHANGED <<st_shape, st_idx, st_val, st_offset>>
    /\ OthersUnchanged({"st"})

\* access_str(A, idx), lines 831-835: the offset and its simplified form
StGetIdxOffset ==
    /\ pc = "st_strides"
    /\ LET cirs == [d \in 1..Len(st_idx) |-> lift_to_cir(st_idx[d], StRangeEnv)]
           off == get_idx_offset("A", StTensor, cirs, <<>>, StRangeEnv)
       IN  st_offset' = [raw |-> off, simplified |-> simplify_cir(off)]
    /\ pc' = "st_done"
    /\ UNCHANGED <<st_shape, st_idx, st_val, st_strides>>
    /\ OthersUnchanged({"st"})

StNext == StGetStrides \/ StGetIdxOffset

SpecStrides == StInit /\ [][StNext]_vars

StValue(e) == eval_cir(lift_to_cir(e, StRangeEnv), st_val, <<>>)

\* the product of the sizes s_k, k > d
RECURSIVE SuffixProduct(_)
SuffixProduct(d) ==
    IF d >= Len(st_shape) THEN 1 ELSE StValue(st_shape[d + 1]) * SuffixProduct(d + 1)

\* the sum of i_k * (product of s_l, l > k) over the dimensions k >= d
RECURSIVE RowMajorFrom(_)
RowMajorFrom(d) ==
    IF d > Len(st_idx) THEN 0
    ELSE StValue(st_idx[d]) * SuffixProduct(d) + RowMajorFrom(d + 1)

\* C8: the stride computed for dimension d of a dense tensor is the product
\* of the sizes of the dimensions after d (1 for the innermost), and the
\* offset computed for an index is the sum of i_d times that stride.
C8_RowMajor ==
    /\ pc \in {"st_strides", "st_done"} =>
          /\ Len(st_strides) = Len(st_shape)
          /\ \A d \in 1..Len(st_shape) :
                eval_cir(st_strides[d], st_val, <<>>) = SuffixProduct(d)
    /\ pc = "st_done" =>
          /\ eval_cir(st_offset.raw, st_val, <<>>) = RowMajorFrom(1)
          /\ eval_cir(st_offset.simplified, st_val, <<>>) = RowMajorFrom(1)

\* an access A[i, 1, i] to a tensor of shape (3, n, 3) with n = 3 and i = 2:
\* the strides are 9, 3, 1 and the offset is 2*9 + 1*3 + 2
C8_Witness ==
    /\ pc = "st_done"
    /\ st_shape = <<Const(MaxSize), Read("n"), Const(MaxSize)>>
    /\ st_idx = <<Read("i"), Const(1), Read("i")>>
    /\ st_val["n"] = 3 /\ st_val["i"] = 2
    /\ eval_cir(st_strides[1], st_val, <<>>) = 3 * MaxSize
    /\ eval_cir(st_offset.simplified, st_val, <<>>) = 6 * MaxSize + 5

(***************************************************************************)
(* Compiler.window_struct_fields, lines 1323-1345.                         *)
(***************************************************************************)
W_Interval(lo, hi) == [tag |-> "Interval", lo |-> lo, hi |-> hi]
W_Point(pt) == [tag |-> "Point", pt |-> pt]
WindowExpr(name, idx) == [tag |-> "WindowExpr", name |-> name, idx |-> idx]

\* line 1329
w_lo(w) == IF w.tag = "Interval" THEN w.lo ELSE w.pt

\* s.join(parts) for sequences of tokens
RECURSIVE Join(_, _)
Join(sep, parts) ==
    IF parts = <<>> THEN <<>>
    ELSE IF Len(parts) = 1 THEN parts[1]
    ELSE parts[1] \o <<sep>> \o Join(sep, Tail(parts))

\* Memory.window (core.memory; spec section 8: data = &base[offset], the
\* offset the sum over the axes of index times stride; the data field of a
\* window is read for a buffer that is a window itself).  The & is written
\* by the caller, line 1256.
mem_window(basetyp, baseptr, indices, strides) ==
    LET offset == Join(" + ", [d \in 1..Len(indices) |->
                                  Paren(indices[d]) \o <<" * ">> \o Paren(strides[d])])
    IN  <<baseptr>> \o (IF is_win(basetyp) THEN <<".data">> ELSE <<>>)
            \o <<"[">> \o offset \o <<"]">>

\* the strides of every axis, interval or point
window_strides_all(all_strides_s, idx) == all_strides_s

\* line 1342: the strides of the interval axes
window_strides(all_strides_s, idx) ==
    LET F[d \in 0..Len(idx)] ==
            IF d = 0 THEN <<>>
            ELSE IF idx[d].tag = "Interval" THEN Append(F[d - 1], all_strides_s[d])
            ELSE F[d - 1]
    IN  F[Len(idx)]

window_struct_fields(e, cc) ==
    LET base == cc.env[e.name]
        basetyp == cc.envtyp[e.name]
        cirs == [d \in 1..Len(e.idx) |-> lift_to_cir(w_lo(e.idx[d]), cc.range_env)]
        idxs == [d \in 1..Len(cirs) |-> comp_cir(simplify_cir(cirs[d]), cc.env, 0).s]
        all_strides == get_strides(e.name, basetyp, cc.known_strides, cc.range_env)
        all_strides_s == [d \in 1..Len(all_strides) |->
                             comp_cir(simplify_cir(all_strides[d]), cc.env, 0).s]
    IN  IF ~(0 < Len(all_strides_s) /\ Len(all_strides_s) = Len(e.idx))
        THEN Raise("AssertionError")
        ELSE [tag |-> "ok",
              dataptr |-> mem_window(basetyp, base, idxs, all_strides_s),
              strides |-> Join(", ", window_strides(all_strides_s, e.idx))]

\* comp_e of a WindowExpr, lines 1254-1257: the struct literal.  The window
\* has one dimension per interval axis; it is const when the body does not
\* write the buffer (get_window_type, lines 890-894).
comp_e_window(e, cc) ==
    LET f == window_struct_fields(e, cc) IN
    IF IsRaise(f) THEN f
    ELSE LET n_dims == Cardinality({d \in DOMAIN e.idx : e.idx[d].tag = "Interval"})
             win_struct == window_struct(basetype(cc.envtyp[e.name]), n_dims,
                                         e.name \notin cc.non_const)
         IN  [tag |-> "ok",
              dataptr |-> <<"&">> \o f.dataptr,
              strides |-> f.strides,
              s |-> <<"(struct ">> \o win_struct.name \o <<"){ ", "&">> \o f.dataptr
                       \o <<", { ">> \o f.strides \o <<" } }">>]

(***************************************************************************)
(* SpecWindow: a window A[...] of a buffer A that is a dense tensor or a   *)
(* window argument, some of whose strides may be known constants.          *)
(***************************************************************************)
WinAccesses ==
    {W_Point(Const(0)), W_Point(Read("i")),
     W_Interval(Const(1), Read("n")), W_Interval(Read("i"), Read("n"))}

WinCompiler ==
    [env |-> [v \in {"A", "n", "i"} |-> IF v = "A" THEN "A_1" ELSE v],
     envtyp |-> [v \in {"A", "n", "i"} |->
                    IF v = "A" THEN win_typ ELSE IF v = "n" THEN T_size ELSE T_index],
     range_env |-> StRangeEnv,
     known_strides |-> win_known,
     non_const |-> {}]

WinInit ==
    /\ pc = "win_start"
    /\ \E r \in 1..MaxRank :
          /\ win_e \in {WindowExpr("A", idx) : idx \in
                          {q \in [1..r -> WinAccesses] :
                              \E d \in 1..r : q[d].tag = "Interval"}}
          /\ \E shape \in [1..r -> {Const(MaxSize), Read("n")}], win \in BOOLEAN :
                win_typ = T_Tensor("f32", shape, win)
          \* a precondition may fix the stride of the last axis of a window
          /\ win_known \in {<<>>} \cup
                (IF is_win(win_typ)
                 THEN {[k \in {<<"A", r - 1>>} |-> CIR_Const(PyInt(1))]} ELSE {})
    /\ win_out = <<>>
    /\ Idle({"win"})

\* comp_e of a WindowExpr, lines 1254-1257
WinFields ==
    /\ pc = "win_start"
    /\ win_out' = comp_e_window(win_e, WinCompiler)
    /\ pc' = IF IsRaise(win_out') THEN "win_AssertionError" ELSE "win_done"
    /\ UNCHANGED <<win_e, win_typ, win_known>>
    /\ OthersUnchanged({"win"})

WinNext == WinFields

SpecWindow == WinInit /\ [][WinNext]_vars

\* the C text of an index expression and of the parent's stride of axis d
WinText(x) == comp_cir(simplify_cir(lift_to_cir(x, StRangeEnv)), WinCompiler.env, 0).s
WinParentStride(d) ==
    comp_cir(simplify_cir(get_strides("A", win_typ, win_known, StRangeEnv)[d]),
             WinCompiler.env, 0).s
WinIntervalAxes == {d \in DOMAIN win_e.idx : win_e.idx[d].tag = "Interval"}

\* the d-th smallest element of a set of axes
RECURSIVE NthAxis(_, _)
NthAxis(axes, d) ==
    LET m == CHOOSE a \in axes : \A b \in axes : a <= b
    IN  IF d = 1 THEN m ELSE NthAxis(axes \ {m}, d - 1)

\* the terms of a sum a + b + ..., given as a sequence of tokens
RECURSIVE SplitAt(_, _, _)
SplitAt(sep, toks, cur) ==
    IF toks = <<>> THEN <<cur>>
    ELSE IF Head(toks) = sep THEN <<cur>> \o SplitAt(sep, Tail(toks), <<>>)
    ELSE SplitAt(sep, Tail(toks), Append(cur, Head(toks)))

\* C9: the data pointer of the struct literal is &base[offset] with one term
\* per axis of the buffer, all r of them: the lower bound of an interval axis
\* or the point of a point axis, times the parent's stride of that axis; the
\* stride list is the parent's strides at the interval axes, in the parent's
\* order, those of the point axes dropped.
C9_WindowFields ==
    pc = "win_done" =>
        LET r == Len(win_e.idx)
            ptr == win_out.dataptr
            base == <<"&", WinCompiler.env["A"]>>
                        \o (IF is_win(win_typ) THEN <<".data">> ELSE <<>>) \o <<"[">>
            terms == SplitAt(" + ", SubSeq(ptr, Len(base) + 1, Len(ptr) - 1), <<>>)
            strides == SplitAt(", ", win_out.strides, <<>>)
            k == Cardinality(WinIntervalAxes)
            lit == win_out.s
        IN  /\ SubSeq(ptr, 1, Len(base)) = base
            /\ ptr[Len(ptr)] = "]"
            /\ \E j \in 1..Len(lit) :
                  /\ lit[j] = "){ "
                  /\ SubSeq(lit, j + 1, Len(lit)) =
                        ptr \o <<", { ">> \o win_out.strides \o <<" } }">>
            /\ Len(terms) = r
            /\ \A d \in 1..r :
                  terms[d] = Paren(WinText(w_lo(win_e.idx[d]))) \o <<" * ">>
                                 \o Paren(WinParentStride(d))
            /\ Len(strides) = k
            /\ \A j \in 1..k : strides[j] = WinParentStride(NthAxis(WinIntervalAxes, j))

\* A[i, 1:n, 0] of a window A of rank 3 whose last stride is known to be 1:
\* three terms in the offset, one stride in the list
C9_Witness ==
    /\ pc = "win_done"
    /\ win_e.idx = <<W_Point(Read("i")), W_Interval(Const(1), Read("n")), W_Point(Const(0))>>
    /\ is_win(win_typ)
    /\ win_known # <<>>
    /\ win_out.strides = <<"A", ".strides[", "1", "]">>
    /\ SubSeq(win_out.s, 1, 6) = <<"(struct ", "exo_win_", "1", "f32", "c", "){ ">>
    /\ win_out.dataptr =
          <<"&", "A_1", ".data", "[",
            "(", "i", ")", " * ", "(", "A", ".strides[", "0", "]", ")", " + ",
            "(", "1", ")", " * ", "(", "A", ".strides[", "1", "]", ")", " + ",
            "(", "0", ")", " * ", "(", "1", ")", "]">>

(***************************************************************************)
(* SpecPreds: the preconditions of a procedure with a window argument A of *)
(* rank 2 (Compiler.__init__, lines 634-652), then a stride lookup made    *)
(* while the body is compiled (get_strides, lines 862-873).                *)
(***************************************************************************)
PrWindow == T_Tensor("f32", <<Read("n"), Read("n")>>, TRUE)

PrCompiler(known) ==
    [env |-> [v \in {"A", "n"} |-> v],
     envtyp |-> [v \in {"A", "n"} |-> IF v = "A" THEN PrWindow ELSE T_size],
     range_env |-> [v \in {"n"} |-> Interval(Some(1), None)],
     known_strides |-> known]

\* assert stride(A, d) == c;  assert c == stride(A, d);  assert True;
\* assert 1 <= n;  assert stride(A, 0) == stride(A, 1)
PrPreds ==
    {BinOp("==", StrideExpr("A", d), Const(c)) : d \in 0..1, c \in 1..2}
    \cup {BinOp("==", Const(1), StrideExpr("A", d)) : d \in 0..1}
    \cup {Const(1), BinOp("<=", Const(1), Read("n")),
          BinOp("==", StrideExpr("A", 0), StrideExpr("A", 1))}

PrInit ==
    /\ pc = "pr_preds"
    /\ \E n \in 0..MaxPreds : preds \in [1..n -> PrPreds]
    /\ pr_i = 1
    /\ known_strides = <<>>
    /\ pr_lines = <<>>
    /\ pr_strides = <<>>
    /\ Idle({"pr"})

\* lines 639-644: the precondition is  stride == constant
is_known_stride_pred(pred) ==
    /\ pred.tag = "BinOp" /\ pred.op = "=="
    /\ pred.lhs.tag = "StrideExpr"
    /\ pred.rhs.tag = "Const"

\* one turn of the loop of lines 634-652
PrPred ==
    /\ pc = "pr_preds"
    /\ pr_i <= Len(preds)
    /\ LET pred == preds[pr_i] IN
       IF pred.tag = "Const" THEN UNCHANGED <<known_strides, pr_lines>>
       ELSE IF is_known_stride_pred(pred)
       THEN /\ known_strides' = MapSet(known_strides, <<pred.lhs.name, pred.lhs.dim>>,
                                       CIR_Const(pred.rhs.val))
            /\ pr_lines' = Append(pr_lines, [kind |-> "// assert", pred |-> pr_i, s |-> <<>>])
       ELSE /\ pr_lines' = Append(pr_lines,
                              [kind |-> "EXO_ASSUME", pred |-> pr_i,
                               s |-> comp_e(pred, PrCompiler(known_strides), 0).s])
            /\ UNCHANGED known_strides
    /\ pr_i' = pr_i + 1
    /\ UNCHANGED <<pc, preds, pr_strides>>
    /\ OthersUnchanged({"pr"})

\* lines 654-657: the loop is over, the body is compiled
PrBody ==
    /\ pc = "pr_preds"
    /\ pr_i > Len(preds)
    /\ pc' = "pr_body"
    /\ UNCHANGED prVars
    /\ OthersUnchanged({"pr"})

\* a stride lookup for A in the body: lines 862-873
PrGetStrides ==
    /\ pc = "pr_body"
    /\ pr_strides' = get_strides("A", PrWindow, known_strides, PrCompiler(known_strides).range_env)
    /\ pc' = "pr_done"
    /\ UNCHANGED <<preds, pr_i, known_strides, pr_lines>>
    /\ OthersUnchanged({"pr"})

PrNext == PrPred \/ PrBody \/ PrGetStrides

SpecPreds == PrInit /\ [][PrNext]_vars

\* the precondition equates stride(A, d) with the integer constant c
PrEquates(pred, d, c) ==
    /\ pred.tag = "BinOp" /\ pred.op = "=="
    /\ \/ pred.lhs = StrideExpr("A", d) /\ pred.rhs = Const(c)
       \/ pred.rhs = StrideExpr("A", d) /\ pred.lhs = Const(c)
PrIsStrideEq(pred) == \E d \in 0..1, c \in 1..2 : PrEquates(pred, d, c)
PrAssumes(k) == {j \in DOMAIN pr_lines : pr_lines[j].kind = "EXO_ASSUME" /\ pr_lines[j].pred = k}

\* C10: once the preconditions are handled, every precondition that equates
\* stride(A, d) with a constant c is in the known-strides table and has no
\* EXO_ASSUME line; a later stride lookup of the window A yields c for such a
\* dimension and the field A.strides[d] for the others; every other
\* precondition that is not a constant has exactly one EXO_ASSUME line.
C10_StridePredsKnown ==
    /\ pc \in {"pr_body", "pr_done"} =>
          \A k \in DOMAIN preds :
              IF PrIsStrideEq(preds[k])
              THEN /\ PrAssumes(k) = {}
                   /\ \A d \in 0..1, c \in 1..2 :
                         PrEquates(preds[k], d, c) =>
                             /\ <<"A", d>> \in DOMAIN known_strides
                             /\ known_strides[<<"A", d>>] = CIR_Const(PyInt(c))
              ELSE IF preds[k].tag = "Const" THEN PrAssumes(k) = {}
              ELSE Cardinality(PrAssumes(k)) = 1
    /\ pc = "pr_done" =>
          \A d \in 0..1 :
              IF \E k \in DOMAIN preds : \E c \in 1..2 : PrEquates(preds[k], d, c)
              THEN \A k \in DOMAIN preds : \A c \in 1..2 :
                      PrEquates(preds[k], d, c) => pr_strides[d + 1] = CIR_Const(PyInt(c))
              ELSE pr_strides[d + 1] = CIR_Stride("A", d)

\* the same for the preconditions written  stride(A, d) == c  only, the
\* constant being that of the last of them for (A, d); all others that are not
\* constants, c == stride(A, d) included, have one EXO_ASSUME line
C10_LeftStridePredsKnown ==
    LET LastFor(d) == {k \in DOMAIN preds :
                          /\ is_known_stride_pred(preds[k]) /\ preds[k].lhs.dim = d
                          /\ \A j \in DOMAIN preds :
                                (is_known_stride_pred(preds[j]) /\ preds[j].lhs.dim = d)
                                    => j <= k}
    IN
    /\ pc \in {"pr_body", "pr_done"} =>
          /\ \A k \in DOMAIN preds :
                IF is_known_stride_pred(preds[k]) \/ preds[k].tag = "Const"
                THEN PrAssumes(k) = {}
                ELSE Cardinality(PrAssumes(k)) = 1
          /\ \A d \in 0..1 :
                IF LastFor(d) = {} THEN <<"A", d>> \notin DOMAIN known_strides
                ELSE \A k \in LastFor(d) :
                        known_strides[<<"A", d>>] = CIR_Const(preds[k].rhs.val)
    /\ pc = "pr_done" =>
          \A d \in 0..1 :
              IF LastFor(d) = {} THEN pr_strides[d + 1] = CIR_Stride("A", d)
              ELSE \A k \in LastFor(d) : pr_strides[d + 1] = CIR_Const(preds[k].rhs.val)

(***************************************************************************)
(* SpecLib: ext_compile_to_strings, lines 407-528.  A library has NLib     *)
(* procedures; a procedure has a name, possibly an instr record, callees,  *)
(* and a body that holds n_div accesses A[i / 2] with an index i of        *)
(* unknown sign and possibly one block under an ExtWithContext.  A line of *)
(* output is a record that tells where it comes from.                      *)
(***************************************************************************)
LibProcs == 1..NLib

LibProc(name, is_instr, callees, n_div, has_ext) ==
    [name |-> name, instr |-> is_instr, calls |-> callees, n_div |-> n_div,
     has_ext |-> has_ext]

\* the ExtWithContext of procedure p: its body goes to the .cu lines and it
\* brings one snippet for the .cuh lines
ExtWithContext(p) ==
    [body_ext |-> "cu",
     ext_snippets |-> <<<<"cuh", [proc |-> p, line |-> <<"snippet">>]>>>>,
     body_prefix |-> [proc |-> p, line |-> <<"body_prefix">>],
     body_suffix |-> [proc |-> p, line |-> <<"body_suffix">>],
     launch |-> [proc |-> p, line |-> <<"launch">>]]

\* dict.setdefault(ext, []).append(line)
ext_append(ext_lines, ext, line) ==
    MapSet(ext_lines, ext,
           (IF ext \in DOMAIN ext_lines THEN ext_lines[ext] ELSE <<>>) \o <<line>>)

RECURSIVE ext_append_snippets(_, _)
ext_append_snippets(ext_lines, snippets) ==
    IF snippets = <<>> THEN ext_lines
    ELSE ext_append_snippets(ext_append(ext_lines, snippets[1][1], snippets[1][2]),
                             Tail(snippets))

\* comp_s of an If holding an ExtWithContext, lines 974-1001, the body of
\* the block being empty: what it does to _lines and _ext_lines
comp_s_ext(c, ctx) ==
    LET e0 == IF ctx.body_ext \in DOMAIN c.ext_lines THEN c.ext_lines
              ELSE MapSet(c.ext_lines, ctx.body_ext, <<>>)
        e1 == ext_append_snippets(e0, ctx.ext_snippets)
        e2 == ext_append(ext_append(e1, ctx.body_ext, ctx.body_prefix),
                         ctx.body_ext, ctx.body_suffix)
    IN  [c EXCEPT !.ext_lines = e2, !.lines = Append(c.lines, ctx.launch)]

\* the compiler of a procedure whose index i has no known range
LibCompilerEnv ==
    [env |-> [v \in {"A", "i"} |-> v],
     envtyp |-> [v \in {"A", "i"} |->
                    IF v = "A" THEN T_Tensor("f32", <<Const(8)>>, FALSE) ELSE T_index],
     range_env |-> [v \in {"i"} |-> Unbounded],
     known_strides |-> <<>>]

\* the index expression i / 2 of an access, and the access as access_str
\* lowers it
LibAccess == access_str("A", <<BinOp("/", Read("i"), Const(2))>>, LibCompilerEnv)

\* the line of an access is added, its helpers are not
add_line_only(c, p, a) ==
    [c EXCEPT !.lines = Append(c.lines, [proc |-> p, line |-> a.s])]

\* add_line of an access, and the helpers that _call_static_helper added to
\* _needed_helpers while it was lowered, lines 1319-1321
add_line(c, p, a) ==
    [c EXCEPT !.lines = Append(c.lines, [proc |-> p, line |-> a.s]),
              !.needed_helpers = c.needed_helpers \cup a.helpers]

\* comp_s of a statement that reads A[i / 2] with the helper call left out
\* of _needed_helpers
comp_s_div_unrecorded(c, p) == add_line_only(c, p, LibAccess)

\* comp_s of a statement that reads A[i / 2]
comp_s_div(c, p) == add_line(c, p, LibAccess)

\* comp_stmts of n such statements
RECURSIVE comp_s_divs(_, _, _)
comp_s_divs(c, p, n) ==
    IF n = 0 THEN c ELSE comp_s_divs(comp_s_div(c, p), p, n - 1)

\* the body of the procedure is compiled: line 656
comp_body(p, proc) ==
    IF proc.has_ext
    THEN comp_s_ext(comp_s_divs([lines |-> <<>>, needed_helpers |-> {}, ext_lines |-> <<>>],
                                p, proc.n_div),
                    ExtWithContext(p))
    ELSE comp_s_divs([lines |-> <<>>, needed_helpers |-> {}, ext_lines |-> <<>>],
                     p, proc.n_div)

\* proc_decl and proc_def, lines 659-676: static_kwd is empty for a public
\* declaration
compiler_of(p, is_static, c) ==
    [proc_decl |-> [kind |-> "decl", proc |-> p, static |-> is_static],
     proc_def |-> [kind |-> "def", proc |-> p, static |-> is_static, lines |-> c.lines],
     needed_helpers |-> c.needed_helpers,
     ext_lines |-> c.ext_lines]

\* a compiler that makes every procedure static
Compiler_all_static(p, proc, is_public_decl) == compiler_of(p, TRUE, comp_body(p, proc))

\* Compiler(p, ctxt_name, is_public_decl), lines 581-676: the compiler after
\* __init__, with proc_decl, proc_def, _needed_helpers and _ext_lines
Compiler(p, proc, is_public_decl) == compiler_of(p, ~is_public_decl, comp_body(p, proc))

\* find_all_subprocs(proc_list), lines 165-185, as a set: the procedures that
\* walk appends to all_procs in a library without call cycles
RECURSIVE lib_walked(_)
lib_walked(ps) ==
    LET more == ps \cup UNION {IF lib_procs[q].instr THEN {} ELSE lib_procs[q].calls :
                                  q \in ps}
    IN  IF more = ps THEN ps ELSE lib_walked(more)

\* sorted(..., key=lambda x: x.name), line 414
RECURSIVE sorted_by_name(_)
sorted_by_name(ps) ==
    IF ps = {} THEN <<>>
    ELSE LET m == CHOOSE q \in ps :
                     \A r \in ps : \/ lib_procs[q].name < lib_procs[r].name
                                   \/ lib_procs[q].name = lib_procs[r].name /\ q <= r
         IN  <<m>> \o sorted_by_name(ps \ {m})

\* the bodies a procedure can have: an instruction has none that is compiled
LibBodies ==
    {[instr |-> TRUE, n_div |-> 0, has_ext |-> FALSE]}
    \cup {[instr |-> FALSE, n_div |-> d, has_ext |-> e] : d \in {0, 2}, e \in BOOLEAN}

\* names are compared by their rank in the alphabet: in the order of the
\* procedures, in the opposite order, or all the same
LibNames ==
    {[p \in LibProcs |-> p], [p \in LibProcs |-> NLib + 1 - p], [p \in LibProcs |-> 1]}

LibInit ==
    /\ pc = "lib_start"
    \* a procedure calls procedures defined before it (here: of a larger
    \* number), so that the library has no call cycle
    /\ \E nm \in LibNames, bd \in [LibProcs -> LibBodies],
          edges \in SUBSET {e \in LibProcs \X LibProcs : e[1] < e[2]} :
          lib_procs = [p \in LibProcs |->
                          LibProc(nm[p], bd[p].instr,
                                  {q \in LibProcs : <<p, q>> \in edges},
                                  bd[p].n_div, bd[p].has_ext)]
    \* the procedures given, in some order
    /\ \E roots \in SUBSET LibProcs \ {{}} : lib_roots = sorted_by_name(roots)
    /\ lib_list = <<>>
    /\ lib_i = 1
    /\ lib_acc = <<>>
    /\ lib_comp = <<>>
    /\ lib_ret = <<>>
    /\ Idle({"lib"})

\* lines 409-426: the call closure, sorted by name, and the empty lists
LibStart ==
    /\ pc = "lib_start"
    /\ lib_list' = sorted_by_name(lib_walked({lib_roots[k] : k \in DOMAIN lib_roots}))
    /\ lib_acc' = [public_fwd_decls |-> <<>>, private_fwd_decls |-> <<>>,
                   proc_bodies |-> <<>>, needed_helpers |-> {}, seen_procs |-> {}]
    /\ pc' = "lib_loop"
    /\ UNCHANGED <<lib_procs, lib_roots, lib_i, lib_comp, lib_ret>>
    /\ OthersUnchanged({"lib"})

\* one turn of the loop of lines 428-481
LibCompile ==
    /\ pc = "lib_loop"
    /\ lib_i <= Len(lib_list)
    /\ LET p == lib_list[lib_i]
           proc == lib_procs[p]
       IN  IF proc.name \in lib_acc.seen_procs
           THEN /\ pc' = "lib_TypeError"          \* multiple procs named ...
                /\ UNCHANGED <<lib_acc, lib_comp, lib_i>>
           ELSE /\ pc' = pc
                /\ lib_i' = lib_i + 1
                /\ IF proc.instr
                   THEN \* lines 434-447: only a comment
                        /\ lib_acc' = [lib_acc EXCEPT
                              !.seen_procs = @ \cup {proc.name},
                              !.proc_bodies = Append(@, [kind |-> "comment", proc |-> p])]
                        /\ UNCHANGED lib_comp
                   ELSE \* lines 448-481
                        LET is_public_decl == p \in {lib_roots[k] : k \in DOMAIN lib_roots}
                        IN  /\ lib_comp' = <<Compiler(p, proc, is_public_decl)>>
                            /\ lib_acc' = [lib_acc EXCEPT
                                  !.seen_procs = @ \cup {proc.name},
                                  !.needed_helpers = @ \cup lib_comp'[1].needed_helpers,
                                  !.public_fwd_decls =
                                      IF is_public_decl
                                      THEN Append(@, lib_comp'[1].proc_decl) ELSE @,
                                  !.private_fwd_decls =
                                      IF is_public_decl
                                      THEN @ ELSE Append(@, lib_comp'[1].proc_decl),
                                  !.proc_bodies = Append(@, lib_comp'[1].proc_def)]
    /\ UNCHANGED <<lib_procs, lib_roots, lib_list, lib_ret>>
    /\ OthersUnchanged({"lib"})

\* _static_helpers, lines 388-397, for the helpers needed: line 514
RECURSIVE helper_code(_)
helper_code(needed) ==
    IF needed = {} THEN <<>>
    ELSE LET v == CHOOSE h \in needed : TRUE
         IN  <<[kind |-> "helper", name |-> v]>> \o helper_code(needed \ {v})

\* lines 483-528: the header, the body and the ext lines are returned; comp
\* is the compiler of the last procedure that was compiled, and is not
\* bound when none was
LibReturn ==
    /\ pc = "lib_loop"
    /\ lib_i > Len(lib_list)
    /\ IF lib_comp = <<>>
       THEN /\ pc' = "lib_UnboundLocalError"
            /\ UNCHANGED lib_ret
       ELSE /\ pc' = "lib_returned"
            /\ lib_ret' = [header |-> lib_acc.public_fwd_decls,
                           helpers |-> helper_code(lib_acc.needed_helpers),
                           private_fwd_decls |-> lib_acc.private_fwd_decls,
                           proc_bodies |-> lib_acc.proc_bodies,
                           ext_lines |-> lib_comp[1].ext_lines]
    /\ UNCHANGED <<lib_procs, lib_roots, lib_list, lib_i, lib_acc, lib_comp>>
    /\ OthersUnchanged({"lib"})

LibNext == LibStart \/ LibCompile \/ LibReturn

SpecLib == LibInit /\ [][LibNext]_vars

\* the procedures that were compiled, in the order of the loop
LibCompiled == SelectSeq(lib_list, LAMBDA p : ~lib_procs[p].instr)

\* what lowering the compiled procedures in order leaves in the lines of
\* extension ext: the lines of each procedure's compiler, one after another
\* ext_lines.get(ext), line 343
ext_get(ext_lines, ext) == IF ext \in DOMAIN ext_lines THEN ext_lines[ext] ELSE <<>>

RECURSIVE ext_lines_in_order(_, _)
ext_lines_in_order(ps, ext) ==
    IF ps = <<>> THEN <<>>
    ELSE ext_get(Compiler(ps[1], lib_procs[ps[1]], FALSE).ext_lines, ext)
         \o ext_lines_in_order(Tail(ps), ext)

LibExts == {"cu", "cuh"}

\* C11: the ext lines returned hold, for each extension, the snippets of
\* every compiled procedure of the library, in the order of lowering.
C11_ExtLinesOfEveryProc ==
    pc = "lib_returned" =>
        \A ext \in LibExts :
            ext_get(lib_ret.ext_lines, ext) = ext_lines_in_order(LibCompiled, ext)

\* the ext lines returned are those of the last compiled procedure alone
C11_ExtLinesOfLastProc ==
    pc = "lib_returned" =>
        lib_ret.ext_lines
            = Compiler(LibCompiled[Len(LibCompiled)],
                       lib_procs[LibCompiled[Len(LibCompiled)]], FALSE).ext_lines

\* how many elements of a sequence satisfy a test
Count(seq, Test(_)) == Cardinality({k \in DOMAIN seq : Test(seq[k])})

LibRoots == {lib_roots[k] : k \in DOMAIN lib_roots}

\* C12: in what is returned, a procedure of the call closure with an instr
\* record has a comment and no definition and no prototype; any other has
\* exactly one definition and exactly one prototype, which is in the header
\* and not static when the procedure was given as input, and is in the
\* private declarations of the body and static when it was not.
C12_OneDefinitionEach ==
    pc = "lib_returned" =>
        \A p \in LibProcs :
            LET defs == Count(lib_ret.proc_bodies, LAMBDA l : l.kind = "def" /\ l.proc = p)
                cmts == Count(lib_ret.proc_bodies, LAMBDA l : l.kind = "comment" /\ l.proc = p)
                pub == Count(lib_ret.header, LAMBDA l : l.proc = p)
                pub_ns == Count(lib_ret.header, LAMBDA l : l.proc = p /\ ~l.static)
                priv == Count(lib_ret.private_fwd_decls, LAMBDA l : l.proc = p)
                priv_s == Count(lib_ret.private_fwd_decls, LAMBDA l : l.proc = p /\ l.static)
                static_defs == Count(lib_ret.proc_bodies,
                                     LAMBDA l : l.kind = "def" /\ l.proc = p /\ l.static)
            IN  IF p \notin lib_walked(LibRoots)
                THEN defs = 0 /\ cmts = 0 /\ pub = 0 /\ priv = 0
                ELSE IF lib_procs[p].instr
                THEN defs = 0 /\ cmts = 1 /\ pub = 0 /\ priv = 0
                ELSE /\ defs = 1 /\ cmts = 0
                     /\ IF p \in LibRoots
                        THEN pub = 1 /\ pub_ns = 1 /\ priv = 0 /\ static_defs = 0
                        ELSE pub = 0 /\ priv = 1 /\ priv_s = 1 /\ static_defs = 1

\* a library was compiled in which a procedure given as input calls a
\* compiled procedure that was not given
C12_Witness ==
    /\ pc = "lib_returned"
    /\ \E p \in LibRoots, q \in LibProcs \ LibRoots :
          /\ ~lib_procs[p].instr /\ ~lib_procs[q].instr
          /\ q \in lib_procs[p].calls
          /\ Len(lib_ret.header) = 1 /\ Len(lib_ret.private_fwd_decls) = 1

\* the emitted lines of a definition that call the helper
CallsHelper(l) ==
    /\ l.kind = "def"
    /\ \E k \in DOMAIN l.lines :
          "exo_floor_div" \in Toks(l.lines[k].line)

\* C13: the body returned holds the definition of exo_floor_div once when
\* some compiled procedure emitted a call of it, and not at all when none
\* did.
C13_HelperOnceIffCalled ==
    pc = "lib_returned" =>
        Count(lib_ret.helpers, LAMBDA h : h.name = "exo_floor_div")
            = IF \E k \in DOMAIN lib_ret.proc_bodies : CallsHelper(lib_ret.proc_bodies[k])
              THEN 1 ELSE 0

\* two compiled procedures both called the helper, one of them twice
C13_Witness ==
    /\ pc = "lib_returned"
    /\ Count(lib_ret.proc_bodies, CallsHelper) >= 2
    /\ \E k \in DOMAIN lib_ret.proc_bodies :
          LET l == lib_ret.proc_bodies[k]
          IN  l.kind = "def" /\ Len(l.lines) = 2
    /\ Len(lib_ret.helpers) = 1

(***************************************************************************)
(* SpecCursors: cursors into a procedure.  A procedure version is a tree   *)
(* of statements; a cursor is a version and a path of steps (attribute,    *)
(* index counted from 0) from the root.  A cursor names a node, a gap of a *)
(* block or a selection of a block.  The procedures are those of the       *)
(* tests.                                                                  *)
(***************************************************************************)
Stmt(kind, id) == [kind |-> kind, id |-> id, body |-> <<>>]
ForStmt(iter, stmts) == [kind |-> "For", id |-> iter, body |-> stmts]
ProcTree(name, stmts) == [kind |-> "proc", id |-> name, body |-> stmts]

\* test_cursors.py, lines 15-22
foo ==
    ProcTree("foo",
        <<ForStmt("i", <<ForStmt("j", <<Stmt("Alloc", "x"), Stmt("Assign", "x"),
                                        Stmt("Alloc", "y"), Stmt("Assign", "y")>>)>>)>>)

\* test_cursors.py, lines 203-206
delete_me == ProcTree("delete_me", <<Stmt("Alloc", "x"), Stmt("Assign", "x")>>)

\* LoopIR.Pass, the statement test_gap_insert_pass inserts
Pass(k) == Stmt("Pass", k)

InvalidCursorError == Raise("InvalidCursorError")

Node(v, path) == [tag |-> "Node", proc |-> v, path |-> path]
Gap(v, path) == [tag |-> "Gap", proc |-> v, path |-> path]
Selection(v, path, lo, hi) ==
    [tag |-> "Selection", proc |-> v, path |-> path, lo |-> lo, hi |-> hi]

Step(i) == <<"body", i>>
Front(path) == SubSeq(path, 1, Len(path) - 1)
LastIdx(path) == path[Len(path)][2]

\* the node a path leads to
RECURSIVE node_at(_, _)
node_at(n, path) ==
    IF path = <<>> THEN n ELSE node_at(n.body[path[1][2] + 1], Tail(path))

\* the block a node or gap cursor is in
block_of(c) == node_at(cur_procs[c.proc], Front(c.path)).body

\* Cursor.root(proc)
Cursor_root(v) == Node(v, <<>>)

\* Cursor.proc(): the weak reference is resolved
Cursor_proc_strong(c) == [tag |-> "Procedure", version |-> c.proc]

Cursor_proc(c) ==
    IF cur_refs[c.proc] = "collected" THEN InvalidCursorError
    ELSE [tag |-> "Procedure", version |-> c.proc]

\* a move of d places within the block, for a node and for a gap
hop_idx(c, d) ==
    LET i == LastIdx(c.path) + d
        n == Len(block_of(c))
    IN  IF c.tag = "Node" /\ c.path # <<>> /\ 0 <= i /\ i < n
        THEN Node(c.proc, Front(c.path) \o <<Step(i)>>)
        ELSE IF c.tag = "Gap" /\ 0 <= i /\ i <= n
        THEN Gap(c.proc, Front(c.path) \o <<Step(i)>>)
        ELSE InvalidCursorError

Cursor_next(c, k) == hop_idx(c, k)

Cursor_prev_one(c, k) == hop_idx(c, -1)

Cursor_prev(c, k) == hop_idx(c, -k)

\* Selection.__getitem__ with an index
Selection_getitem(c, k) ==
    IF 0 <= k /\ c.lo + k < c.hi THEN Node(c.proc, c.path \o <<Step(c.lo + k)>>)
    ELSE InvalidCursorError

\* Selection.__getitem__ with a slice a:b
Selection_slice(c, a, b) ==
    IF 0 <= a /\ a < b /\ c.lo + b <= c.hi
    THEN Selection(c.proc, c.path, c.lo + a, c.lo + b)
    ELSE InvalidCursorError

\* before() of a selection taken at its last element
Cursor_before_last(c) ==
    CASE c.tag = "Node" /\ c.path # <<>> -> Gap(c.proc, c.path)
      [] c.tag = "Gap" /\ LastIdx(c.path) >= 1 ->
            Node(c.proc, Front(c.path) \o <<Step(LastIdx(c.path) - 1)>>)
      [] c.tag = "Selection" -> Gap(c.proc, c.path \o <<Step(c.hi - 1)>>)
      [] OTHER -> InvalidCursorError

\* before(): the gap before a node, the node before a gap, and for a
\* selection the before() of its first element
Cursor_before(c) ==
    CASE c.tag = "Node" /\ c.path # <<>> -> Gap(c.proc, c.path)
      [] c.tag = "Gap" /\ LastIdx(c.path) >= 1 ->
            Node(c.proc, Front(c.path) \o <<Step(LastIdx(c.path) - 1)>>)
      [] c.tag = "Selection" -> Gap(c.proc, c.path \o <<Step(c.lo)>>)
      [] OTHER -> InvalidCursorError

\* after(k) that takes the gap at the node's own index
Cursor_after_same(c, k) ==
    CASE c.tag = "Node" /\ c.path # <<>> /\ LastIdx(c.path) + k <= Len(block_of(c)) ->
            Gap(c.proc, Front(c.path) \o <<Step(LastIdx(c.path) + k - 1)>>)
      [] c.tag = "Gap" /\ LastIdx(c.path) + k - 1 < Len(block_of(c)) ->
            Node(c.proc, Front(c.path) \o <<Step(LastIdx(c.path) + k - 1)>>)
      [] c.tag = "Selection" -> Gap(c.proc, c.path \o <<Step(c.hi)>>)
      [] OTHER -> InvalidCursorError

\* after(k=1): the k-th gap after a node, the k-th node after a gap, and for
\* a selection the after() of its last element
Cursor_after(c, k) ==
    CASE c.tag = "Node" /\ c.path # <<>> /\ LastIdx(c.path) + k <= Len(block_of(c)) ->
            Gap(c.proc, Front(c.path) \o <<Step(LastIdx(c.path) + k)>>)
      [] c.tag = "Gap" /\ LastIdx(c.path) + k - 1 < Len(block_of(c)) ->
            Node(c.proc, Front(c.path) \o <<Step(LastIdx(c.path) + k - 1)>>)
      [] c.tag = "Selection" -> Gap(c.proc, c.path \o <<Step(c.hi)>>)
      [] OTHER -> InvalidCursorError

\* body(): the selection of all statements of a procedure or of a loop
Cursor_body(c) ==
    IF c.tag = "Node" /\ node_at(cur_procs[c.proc], c.path).kind \in {"proc", "For"}
    THEN Selection(c.proc, c.path, 0, Len(node_at(cur_procs[c.proc], c.path).body))
    ELSE InvalidCursorError

\* parent() that goes one node too far for a selection
Cursor_parent_of_node(c) ==
    IF c.path # <<>> THEN Node(c.proc, Front(c.path)) ELSE InvalidCursorError

\* parent(): the node that holds the block of a selection, of a node, of a gap
Cursor_parent(c) ==
    IF c.tag = "Selection" THEN Node(c.proc, c.path)
    ELSE IF c.path # <<>> THEN Node(c.proc, Front(c.path))
    ELSE InvalidCursorError

\* the tree with stmts put at the end of the block the path leads to
RECURSIVE tree_append(_, _, _)
tree_append(n, path, stmts) ==
    IF Len(path) = 1 THEN [n EXCEPT !.body = n.body \o stmts]
    ELSE [n EXCEPT !.body[path[1][2] + 1] = tree_append(@, Tail(path), stmts)]

\* the tree with stmts put at the gap the path leads to; the nodes off the
\* path are shared with the old tree
RECURSIVE tree_insert(_, _, _)
tree_insert(n, path, stmts) ==
    IF Len(path) = 1
    THEN [n EXCEPT !.body = SubSeq(n.body, 1, path[1][2]) \o stmts
                                \o SubSeq(n.body, path[1][2] + 1, Len(n.body))]
    ELSE [n EXCEPT !.body[path[1][2] + 1] = tree_insert(@, Tail(path), stmts)]

CurTests == {foo, delete_me}
NoResult == [tag |-> "None"]

CurInit ==
    /\ pc = "cur"
    /\ \E t \in CurTests : cur_procs = <<t>>
    /\ cur_refs = <<"strong">>
    /\ cursor = Cursor_root(1)
    /\ cur_op = [op |-> "root", k |-> 1, on |-> "Procedure"]
    /\ cur_res = NoResult
    /\ Idle({"cur"})

\* a cursor operation: it resolves the procedure first, which fails when
\* the procedure was collected, and a cursor that is returned replaces the
\* one held
CurApply(op, k, r) ==
    LET res == IF IsRaise(Cursor_proc(cursor)) THEN Cursor_proc(cursor) ELSE r
    IN  /\ pc = "cur"
        /\ pc' = pc
        /\ cur_op' = [op |-> op, k |-> k, on |-> cursor.tag]
        /\ cursor' = IF IsRaise(res) \/ res.tag = "Procedure" THEN cursor ELSE res
        /\ cur_res' = IF IsRaise(res) \/ res.tag = "Procedure" THEN res ELSE NoResult
        /\ UNCHANGED <<cur_procs, cur_refs>>
        /\ OthersUnchanged({"cur"})

CurRoot ==
    \E v \in DOMAIN cur_procs :
        /\ pc = "cur"
        /\ pc' = pc
        /\ cur_refs[v] = "strong"
        /\ cursor' = Cursor_root(v)
        /\ cur_op' = [op |-> "root", k |-> v, on |-> "Procedure"]
        /\ cur_res' = NoResult
        /\ UNCHANGED <<cur_procs, cur_refs>>
        /\ OthersUnchanged({"cur"})

CurNext == \E k \in 1..MaxHop : CurApply("next", k, Cursor_next(cursor, k))
CurPrev == \E k \in 1..MaxHop : CurApply("prev", k, Cursor_prev(cursor, k))
CurBefore == CurApply("before", 1, Cursor_before(cursor))
CurAfter == \E k \in 1..MaxHop : CurApply("after", k, Cursor_after(cursor, k))
CurBody == CurApply("body", 1, Cursor_body(cursor))
CurParent == CurApply("parent", 1, Cursor_parent(cursor))

CurGetItem ==
    /\ cursor.tag = "Selection"
    /\ \E k \in 0..(cursor.hi - cursor.lo) :
          CurApply("getitem", k, Selection_getitem(cursor, k))

CurSlice ==
    /\ cursor.tag = "Selection"
    /\ \E a \in 0..(cursor.hi - cursor.lo), b \in 0..(cursor.hi - cursor.lo) :
          /\ a < b
          /\ CurApply("slice", a, Selection_slice(cursor, a, b))

CurProc == CurApply("proc", 1, Cursor_proc(cursor))

\* Gap.insert(stmts): a new version of the procedure is returned
CurInsert ==
    /\ pc = "cur"
    /\ pc' = pc
    /\ cursor.tag = "Gap"
    /\ Len(cur_procs) < MaxVersions
    /\ cur_refs[cursor.proc] # "collected"
    /\ \E m \in 1..MaxInsert :
          /\ cur_procs' = Append(cur_procs,
                                 tree_insert(cur_procs[cursor.proc], cursor.path,
                                             [k \in 1..m |-> Pass(k)]))
          /\ cur_op' = [op |-> "insert", k |-> m, on |-> "Gap"]
    /\ cur_refs' = Append(cur_refs, "strong")
    /\ cur_res' = [tag |-> "Procedure", version |-> Len(cur_procs) + 1]
    /\ UNCHANGED cursor
    /\ OthersUnchanged({"cur"})

\* del: the last strong reference to a version is dropped
CurDel ==
    \E v \in DOMAIN cur_refs :
        /\ pc = "cur"
        /\ pc' = pc
        /\ cur_refs[v] = "strong"
        /\ cur_refs' = [cur_refs EXCEPT ![v] = "dropped"]
        /\ cur_op' = [op |-> "del", k |-> v, on |-> "Procedure"]
        /\ cur_res' = NoResult
        /\ UNCHANGED <<cur_procs, cursor>>
        /\ OthersUnchanged({"cur"})

\* gc.collect(): the versions without a strong reference are collected
CurCollect ==
    /\ pc = "cur"
    /\ pc' = pc
    /\ \E v \in DOMAIN cur_refs : cur_refs[v] = "dropped"
    /\ cur_refs' = [v \in DOMAIN cur_refs |->
                       IF cur_refs[v] = "dropped" THEN "collected" ELSE cur_refs[v]]
    /\ cur_op' = [op |-> "collect", k |-> 1, on |-> "Procedure"]
    /\ cur_res' = NoResult
    /\ UNCHANGED <<cur_procs, cursor>>
    /\ OthersUnchanged({"cur"})

\* moves, gaps, selections and the lifetime of a procedure
CurNextStep ==
    \/ CurRoot \/ CurNext \/ CurPrev \/ CurBefore \/ CurAfter \/ CurBody \/ CurParent
    \/ CurGetItem \/ CurSlice \/ CurProc \/ CurDel \/ CurCollect

SpecCursors == CurInit /\ [][CurNextStep]_vars

\* rewrites: a gap is reached and statements are inserted at it
InsNext == CurRoot \/ CurBody \/ CurGetItem \/ CurBefore \/ CurAfter \/ CurInsert

SpecInsert == CurInit /\ [][InsNext]_vars

\* the cursor held names a statement of a block of a procedure that is alive
IsStmt(c) == c.tag = "Node" /\ c.path # <<>>
IsAlive(c) == cur_refs[c.proc] # "collected"
IdxCursor(tag, c, i) == [tag |-> tag, proc |-> c.proc, path |-> Front(c.path) \o <<Step(i)>>]

\* C14: next(k) of the cursor of statement i of a block of n statements is
\* the cursor of statement i+k of that block when i+k < n, prev(k) is the
\* cursor of statement i-k when i-k >= 0, and prev(k) undoes next(k);
\* cursors are equal when their version and path are.
C14_NextPrev ==
    [][\A k \in 1..MaxHop :
          (IsStmt(cursor) /\ IsAlive(cursor)) =>
             LET i == LastIdx(cursor.path)
                 n == Len(block_of(cursor))
             IN  /\ (cur_op'.op = "next" /\ cur_op'.k = k /\ i + k < n) =>
                       /\ cursor' = IdxCursor("Node", cursor, i + k)
                       /\ node_at(cur_procs[cursor.proc], cursor'.path) = block_of(cursor)[i + k + 1]
                       /\ Cursor_prev(cursor', k) = cursor
                       /\ cursor' # cursor
                 /\ (cur_op'.op = "prev" /\ cur_op'.k = k /\ i - k >= 0) =>
                       /\ cursor' = IdxCursor("Node", cursor, i - k)
                       /\ node_at(cur_procs[cursor.proc], cursor'.path) = block_of(cursor)[i - k + 1]
                       /\ Cursor_next(cursor', k) = cursor
                       /\ cursor' # cursor]_vars

\* next(MaxHop) moved the cursor from the first statement of a block
C14_Witness ==
    /\ cur_op = [op |-> "next", k |-> MaxHop, on |-> "Node"]
    /\ cur_res = NoResult
    /\ IsStmt(cursor)
    /\ LastIdx(cursor.path) = MaxHop

\* C15: before() of statement i is the gap i of its block and after(k) is
\* the gap i+k, so that after() is the before() of the next statement and
\* after(k) is before() moved by next(k); next(k) adds k to the index of a
\* gap; after() of the gap i is statement i.
C15_Gaps ==
    [][(IsAlive(cursor) /\ cursor.tag \in {"Node", "Gap"} /\ cursor.path # <<>>) =>
          LET i == LastIdx(cursor.path)
              n == Len(block_of(cursor))
              k == cur_op'.k
          IN  /\ (cursor.tag = "Node" /\ cur_op'.op = "before") =>
                    cursor' = IdxCursor("Gap", cursor, i)
              /\ (cursor.tag = "Node" /\ cur_op'.op = "after" /\ i + k <= n) =>
                    /\ cursor' = IdxCursor("Gap", cursor, i + k)
                    /\ cursor' = Cursor_next(Cursor_before(cursor), k)
                    /\ (k = 1 /\ i + 1 < n) =>
                          cursor' = Cursor_before(Cursor_next(cursor, 1))
              /\ (cursor.tag = "Gap" /\ cur_op'.op = "next" /\ i + k <= n) =>
                    cursor' = IdxCursor("Gap", cursor, i + k)
              /\ (cursor.tag = "Gap" /\ cur_op'.op = "after" /\ k = 1 /\ i < n) =>
                    cursor' = IdxCursor("Node", cursor, i)]_vars

\* after(MaxHop) of the second statement of a block gave a gap
C15_Witness ==
    /\ cur_op = [op |-> "after", k |-> MaxHop, on |-> "Node"]
    /\ cur_res = NoResult
    /\ cursor.tag = "Gap"
    /\ LastIdx(cursor.path) = MaxHop + 1

\* C16: element k of the selection of statements i to j-1 is the cursor of
\* statement i+k; before() of the selection is before() of its first
\* element and after() is after() of its last element; parent() of the
\* body of a loop is the cursor of the loop.
C16_Selections ==
    [][IsAlive(cursor) =>
          /\ (cursor.tag = "Selection" /\ cur_op'.op = "getitem"
                /\ cur_op'.k < cursor.hi - cursor.lo) =>
                cursor' = Node(cursor.proc, cursor.path \o <<Step(cursor.lo + cur_op'.k)>>)
          /\ (cursor.tag = "Selection" /\ cur_op'.op = "before") =>
                cursor' = Cursor_before(Selection_getitem(cursor, 0))
          /\ (cursor.tag = "Selection" /\ cur_op'.op = "after") =>
                cursor' = Cursor_after(Selection_getitem(cursor, cursor.hi - cursor.lo - 1), 1)
          /\ (cursor.tag = "Node" /\ cur_op'.op = "body" /\ cur_res' = NoResult) =>
                /\ cursor'.tag = "Selection"
                /\ cursor'.lo = 0
                /\ cursor'.hi = Len(node_at(cur_procs[cursor.proc], cursor.path).body)
                /\ Cursor_parent(cursor') = cursor
          /\ (cursor.tag = "Selection" /\ cur_op'.op = "parent") =>
                Cursor_body(cursor') = Selection(cursor.proc, cursor.path, 0,
                                                 Len(node_at(cur_procs[cursor.proc],
                                                             cursor.path).body))]_vars

\* before() was taken of a selection that starts at the second statement
C16_Witness ==
    /\ cur_op.op = "before" /\ cur_op.on = "Selection"
    /\ cur_res = NoResult
    /\ cursor.tag = "Gap"
    /\ LastIdx(cursor.path) = 1

\* C17: proc() of a cursor fails with InvalidCursorError when the
\* procedure was collected and returns the procedure as long as it was not;
\* a collected procedure stays collected.
C17_Lifetime ==
    [][/\ cur_op'.op = "proc" =>
             IF cur_refs[cursor.proc] = "collected"
             THEN cur_res' = InvalidCursorError
             ELSE cur_res' = [tag |-> "Procedure", version |-> cursor.proc]
       /\ \A v \in DOMAIN cur_refs :
             cur_refs[v] = "collected" => cur_refs'[v] = "collected"]_vars

\* proc() was called on a cursor into a collected procedure
C17_Witness ==
    /\ cur_op.op = "proc"
    /\ cur_refs[cursor.proc] = "collected"
    /\ cur_res = InvalidCursorError
    /\ IsStmt(cursor)

\* C18: insert at the gap i of a block returns a new version in which the
\* block holds the old statements 0..i-1, then the inserted ones, then the
\* old statements from i on, and nothing else differs; no version that
\* existed is changed.
C18_InsertAtGap ==
    [][cur_op'.op = "insert" =>
          LET old == cur_procs[cursor.proc]
              new == cur_procs'[Len(cur_procs')]
              i == LastIdx(cursor.path)
              m == cur_op'.k
              ob == node_at(old, Front(cursor.path)).body
              nb == node_at(new, Front(cursor.path)).body
          IN  /\ Len(cur_procs') = Len(cur_procs) + 1
              /\ \A v \in DOMAIN cur_procs : cur_procs'[v] = cur_procs[v]
              /\ Len(nb) = Len(ob) + m
              /\ \A j \in 1..i : nb[j] = ob[j]
              /\ \A j \in 1..m : nb[i + j] = Pass(j)
              /\ \A j \in (i + 1)..Len(ob) : nb[j + m] = ob[j]
              /\ \A d \in 0..(Len(cursor.path) - 2) :
                    LET on == node_at(old, SubSeq(cursor.path, 1, d))
                        nn == node_at(new, SubSeq(cursor.path, 1, d))
                    IN  /\ nn.kind = on.kind /\ nn.id = on.id
                        /\ Len(nn.body) = Len(on.body)
                        /\ \A t \in DOMAIN on.body :
                              t # cursor.path[d + 1][2] + 1 => nn.body[t] = on.body[t]]_vars

\* statements were inserted between two statements of a block
C18_Witness ==
    /\ cur_op.op = "insert"
    /\ cursor.tag = "Gap"
    /\ LastIdx(cursor.path) > 0
    /\ LastIdx(cursor.path) < Len(block_of(cursor))
    /\ cur_res = [tag |-> "Procedure", version |-> Len(cur_procs)]

(***************************************************************************)
(* SpecDivideLoop: the loop nest that divide_loop(p, j, k, [jo, ji],       *)
(* tail = "cut_and_guard") makes of  for j in seq(0, N),  as it runs.      *)
(***************************************************************************)
\* divide_loop without a tail: the policy "perfect" applied to any N
divide_loop_perfect(N, k) ==
    [outer_hi |-> N \div k, inner_hi |-> k, factor |-> k,
     guard |-> FALSE, tail_lo |-> N - (N % k), tail_hi |-> N]

\* divide_loop with tail cut_and_guard:
\*   for jo in seq(0, N / k): for ji in seq(0, k): body(k * jo + ji)
\*   if N % k > 0: for ji in seq(0, N % k): body(ji + N - N % k)
divide_loop(N, k) ==
    [outer_hi |-> N \div k, inner_hi |-> k, factor |-> k,
     guard |-> N % k > 0, tail_lo |-> N - (N % k), tail_hi |-> N]

DlInit ==
    /\ pc = "dl_main"
    /\ dl_N \in 0..MaxBound
    /\ dl_k \in 1..MaxFactor
    /\ dl_at = [jo |-> 0, ji |-> 0]
    /\ dl_trace = <<>>
    /\ Idle({"dl"})

\* one run of the body in the main nest, with j = k * jo + ji
DlBody ==
    LET l == divide_loop(dl_N, dl_k)
    IN  /\ pc = "dl_main"
        /\ dl_at.jo < l.outer_hi
        /\ dl_trace' = Append(dl_trace, l.factor * dl_at.jo + dl_at.ji)
        /\ dl_at' = IF dl_at.ji + 1 < l.inner_hi
                    THEN [dl_at EXCEPT !.ji = @ + 1]
                    ELSE [jo |-> dl_at.jo + 1, ji |-> 0]
        /\ pc' = pc
        /\ UNCHANGED <<dl_N, dl_k>>
        /\ OthersUnchanged({"dl"})

\* the main nest is done: the guard of the tail is tested
DlGuard ==
    LET l == divide_loop(dl_N, dl_k)
    IN  /\ pc = "dl_main"
        /\ dl_at.jo >= l.outer_hi
        /\ pc' = IF l.guard THEN "dl_tail" ELSE "dl_done"
        /\ dl_at' = [jo |-> dl_at.jo, ji |-> 0]
        /\ UNCHANGED <<dl_N, dl_k, dl_trace>>
        /\ OthersUnchanged({"dl"})

\* one run of the body in the tail, or the end of the tail
DlTail ==
    LET l == divide_loop(dl_N, dl_k)
    IN  /\ pc = "dl_tail"
        /\ IF l.tail_lo + dl_at.ji < l.tail_hi
           THEN /\ dl_trace' = Append(dl_trace, l.tail_lo + dl_at.ji)
                /\ dl_at' = [dl_at EXCEPT !.ji = @ + 1]
                /\ pc' = pc
           ELSE /\ pc' = "dl_done"
                /\ UNCHANGED <<dl_at, dl_trace>>
        /\ UNCHANGED <<dl_N, dl_k>>
        /\ OthersUnchanged({"dl"})

DlNext == DlBody \/ DlGuard \/ DlTail

SpecDivideLoop == DlInit /\ [][DlNext]_vars

\* C19: the divided loop with a guarded tail runs its body with every j of
\* 0..N-1 once, in increasing order, and with no other j.
C19_EveryIterationOnce ==
    /\ \A a \in DOMAIN dl_trace : dl_trace[a] = a - 1
    /\ Len(dl_trace) <= dl_N
    /\ pc = "dl_done" => Len(dl_trace) = dl_N

\* a loop whose bound is not a multiple of the factor has run its main nest
\* and its tail
C19_Witness ==
    /\ pc = "dl_done"
    /\ dl_N % dl_k > 0
    /\ dl_N \div dl_k >= 2
    /\ dl_k >= 2
    /\ Len(dl_trace) = dl_N

(***************************************************************************)
(* SpecSimplify: simplify_cir, lines 96-142, applied to the CIR            *)
(* expressions of depth at most two over a variable x and the literals     *)
(* 0..MaxLit.                                                              *)
(***************************************************************************)
ScOps == {"+", "-", "*", "/", "%"}
ScLeaves == {CIR_Read("x", FALSE)} \cup {CIR_Const(PyInt(c)) : c \in 0..MaxLit}

\* the expressions with one more operator than those of S at the top
ScGrow(S) ==
    S \cup {CIR_BinOp(op, l, r, FALSE) : op \in ScOps, l \in S, r \in S}
      \cup {CIR_USub(a, FALSE) : a \in S}

ScInit ==
    /\ pc = "sc_start"
    /\ sc_e \in ScGrow(ScGrow(ScLeaves))
    /\ sc_out = <<>>
    /\ Idle({"sc"})

ScSimplify ==
    /\ pc = "sc_start"
    /\ sc_out' = simplify_cir(sc_e)
    /\ pc' = IF IsRaise(simplify_cir(sc_e)) THEN "sc_raised" ELSE "sc_done"
    /\ UNCHANGED sc_e
    /\ OthersUnchanged({"sc"})

ScNext == ScSimplify

SpecSimplify == ScInit /\ [][ScNext]_vars

ScVals == [{"x"} -> (0 - MaxVal)..MaxVal]
ScValue(e, val) == eval_cir(e, val, <<>>)

\* every divisor and modulus of e is positive under val: e has a value
RECURSIVE ScDefined(_, _)
ScDefined(e, val) ==
    CASE e.tag = "BinOp" ->
            /\ ScDefined(e.lhs, val) /\ ScDefined(e.rhs, val)
            /\ e.op \in {"/", "%"} => ScValue(e.rhs, val) > 0
      [] e.tag = "USub" -> ScDefined(e.arg, val)
      [] OTHER -> TRUE

\* every constant of e is an integer
RECURSIVE ScIntConsts(_)
ScIntConsts(e) ==
    CASE e.tag = "Const" -> e.val.den = 1
      [] e.tag = "BinOp" -> ScIntConsts(e.lhs) /\ ScIntConsts(e.rhs)
      [] e.tag = "USub" -> ScIntConsts(e.arg)
      [] OTHER -> TRUE

\* the result is an expression with the value of the input wherever the
\* input has one
ScSameValue ==
    /\ ~IsRaise(sc_out)
    /\ ScIntConsts(sc_out)
    /\ \A val \in ScVals : ScDefined(sc_e, val) => ScValue(sc_out, val) = ScValue(sc_e, val)

\* the identities, on the simplified operands l and r of a binary operation
ScIdentities ==
    /\ sc_e.tag = "BinOp" =>
          LET l == simplify_cir(sc_e.lhs)
              r == simplify_cir(sc_e.rhs)
              op == sc_e.op
          IN  (~IsRaise(l) /\ ~IsRaise(r)) =>
                 /\ (l.tag # "Const" /\ IsConst(r, 0) /\ op \in {"+", "-"}) => sc_out = l
                 /\ (l.tag # "Const" /\ IsConst(r, 1) /\ op \in {"*", "/"}) => sc_out = l
                 /\ (IsConst(l, 0) /\ r.tag # "Const" /\ op = "+") => sc_out = r
                 /\ (IsConst(l, 1) /\ r.tag # "Const" /\ op = "*") => sc_out = r
                 /\ (l.tag # "Const" /\ IsConst(r, 0) /\ op = "*") => sc_out = CIR_Const(PyInt(0))
                 /\ (IsConst(l, 0) /\ r.tag # "Const" /\ op = "*") => sc_out = CIR_Const(PyInt(0))
                 /\ (IsConst(l, 0) /\ r.tag # "Const" /\ op = "-") =>
                       sc_out = CIR_BinOp("-", l, r, sc_e.is_non_neg)
    /\ sc_e.tag = "USub" =>
          LET a == simplify_cir(sc_e.arg)
          IN  ~IsRaise(a) =>
                 /\ a.tag = "USub" => sc_out = a.arg
                 /\ a.tag = "Const" => sc_out = CIR_Const(PyNeg(a.val))

\* the input has a divisor or modulus that simplifies to the constant 0
RECURSIVE ScZeroDivisor(_)
ScZeroDivisor(e) ==
    CASE e.tag = "BinOp" ->
            \/ ScZeroDivisor(e.lhs) \/ ScZeroDivisor(e.rhs)
            \/ /\ e.op \in {"/", "%"}
               /\ ~IsRaise(simplify_cir(e.rhs))
               /\ IsConst(simplify_cir(e.rhs), 0)
      [] e.tag = "USub" -> ScZeroDivisor(e.arg)
      [] OTHER -> FALSE

\* C20: simplify_cir applies the identities 0+x, x+0, x-0, 1*x, x*1, x/1 ->
\* x, 0*x, x*0 -> 0, -(-x) -> x, -(c) -> the constant -c, keeps 0-x a
\* subtraction, and its result has the value of the input for every
\* assignment of the variables.
C20_IdentitiesKeepValue ==
    (pc # "sc_start" /\ ~ScZeroDivisor(sc_e)) => (ScIdentities /\ ScSameValue)

\* the input uses the operators / and % : the division of two constants
\* and the remainder of the constant 0 are the cases the code gets wrong
RECURSIVE ScHasDivMod(_)
ScHasDivMod(e) ==
    CASE e.tag = "BinOp" -> e.op \in {"/", "%"} \/ ScHasDivMod(e.lhs) \/ ScHasDivMod(e.rhs)
      [] e.tag = "USub" -> ScHasDivMod(e.arg)
      [] OTHER -> FALSE

\* without / and % in the input the identities are applied and the value is
\* kept
C20_HoldsWithoutDivMod ==
    (pc # "sc_start" /\ ~ScHasDivMod(sc_e)) => (ScIdentities /\ ScSameValue)

\* where an assertion is not hit the identities are applied as listed
C20_IdentitiesApplied ==
    pc = "sc_done" => ScIdentities

\* a constant that is a Python int
ScIsInt(c) == c.tag = "Const" /\ ~c.val.float /\ c.val.den = 1

\* every constant of e is a Python int
RECURSIVE ScAllInt(_)
ScAllInt(e) ==
    CASE e.tag = "Const" -> ScIsInt(e)
      [] e.tag = "BinOp" -> ScAllInt(e.lhs) /\ ScAllInt(e.rhs)
      [] e.tag = "USub" -> ScAllInt(e.arg)
      [] OTHER -> TRUE

\* the operators of the index language on integers, the divisor positive
ScIntOp(op, a, b) ==
    CASE op = "+" -> a + b
      [] op = "-" -> a - b
      [] op = "*" -> a * b
      [] op = "/" -> a \div b
      [] op = "%" -> a % b

\* a binary operation whose operands both simplify to integer constants
\* becomes the integer constant of the index language's operator
ScFolded ==
    sc_e.tag = "BinOp" =>
        LET l == simplify_cir(sc_e.lhs)
            r == simplify_cir(sc_e.rhs)
        IN  (~IsRaise(l) /\ ~IsRaise(r) /\ ScIsInt(l) /\ ScIsInt(r)
               /\ (sc_e.op \in {"/", "%"} => r.val.num > 0)) =>
                sc_out = CIR_Const(PyInt(ScIntOp(sc_e.op, l.val.num, r.val.num)))

\* C21: two operands that simplify to integer constants are folded into the
\* integer constant of the operator applied to them, the division being the
\* floored one, and an input with integer constants only simplifies to an
\* expression with integer constants only.
C21_FoldsToIntegers ==
    (pc # "sc_start" /\ ~ScZeroDivisor(sc_e)) =>
        (~IsRaise(sc_out) => (ScFolded /\ ScAllInt(sc_out)))

\* the input has a division
RECURSIVE ScHasDiv(_)
ScHasDiv(e) ==
    CASE e.tag = "BinOp" -> e.op = "/" \/ ScHasDiv(e.lhs) \/ ScHasDiv(e.rhs)
      [] e.tag = "USub" -> ScHasDiv(e.arg)
      [] OTHER -> FALSE

\* without a division in the input the constants are folded as integers
C21_IntegersWithoutDiv ==
    (pc = "sc_done" /\ ~ScHasDiv(sc_e)) => (ScFolded /\ ScAllInt(sc_out))

\* C29: simplifying the result of simplify_cir once more returns that
\* result unchanged.
C29_Idempotent ==
    pc = "sc_done" => simplify_cir(sc_out) = sc_out

\* an expression of depth two was simplified down to its variable
C29_Witness ==
    /\ pc = "sc_done"
    /\ sc_e.tag = "BinOp"
    /\ sc_e.lhs.tag = "BinOp"
    /\ sc_e.rhs.tag = "BinOp"
    /\ sc_out = CIR_Read("x", FALSE)

\* C30: simplify_cir returns an expression, hitting no assertion, whenever
\* no divisor or modulus of the input simplifies to the constant 0.
C30_NoAssertion ==
    (pc # "sc_start" /\ ~ScZeroDivisor(sc_e)) => (pc = "sc_done" /\ ~IsRaise(sc_out))

\* the input has a remainder whose left operand simplifies to the constant 0
RECURSIVE ScZeroModulo(_)
ScZeroModulo(e) ==
    CASE e.tag = "BinOp" ->
            \/ ScZeroModulo(e.lhs) \/ ScZeroModulo(e.rhs)
            \/ /\ e.op = "%"
               /\ ~IsRaise(simplify_cir(e.lhs))
               /\ IsConst(simplify_cir(e.lhs), 0)
      [] e.tag = "USub" -> ScZeroModulo(e.arg)
      [] OTHER -> FALSE

\* the remainder of 0 is the only case that hits an assertion
C30_ReturnsUnlessZeroModulo ==
    (pc # "sc_start" /\ ~ScZeroDivisor(sc_e) /\ ~ScZeroModulo(sc_e)) =>
        (pc = "sc_done" /\ ~IsRaise(sc_out))

(***************************************************************************)
(* SpecLoopMode: the loop modes of loop_mode.py and cuda_can_nest_in.      *)
(***************************************************************************)
LoopMode(name, cuda_nesting, units) ==
    [tag |-> "LoopMode", name |-> name, cuda_nesting |-> cuda_nesting, units |-> units]

\* _unpack_positive_int, lines 29-35, of an int
unpack_positive_int(value) ==
    IF value <= 0 THEN Raise("ValueError") ELSE [tag |-> "int", val |-> value]

\* the classes of lines 38-165, constructed
Seq_ == LoopMode("seq", None, 0)
Par == LoopMode("par", None, 0)
CudaClusters(blocks) ==
    IF IsRaise(unpack_positive_int(blocks)) THEN unpack_positive_int(blocks)
    ELSE LoopMode("cuda_clusters", Some(2), unpack_positive_int(blocks).val)
CudaBlocks(warps) ==
    IF IsRaise(unpack_positive_int(warps)) THEN unpack_positive_int(warps)
    ELSE LoopMode("cuda_blocks", Some(3), unpack_positive_int(warps).val)
CudaWarpgroups == LoopMode("cuda_warpgroups", Some(4), 0)
CudaWarps == LoopMode("cuda_warps", Some(5), 0)
CudaThreads == LoopMode("cuda_threads", Some(6), 0)

\* a Python bool returned where an exception may be raised instead
PyBool(b) == [tag |-> "bool", val |-> b]

\* cuda_can_nest_in that lets a mode nest in a mode of its own depth
cuda_can_nest_in_or_same(self, other) ==
    IF self.cuda_nesting = None THEN Raise("AssertionError")
    ELSE PyBool(other.cuda_nesting # None /\ self.cuda_nesting[1] >= other.cuda_nesting[1])

\* LoopMode.cuda_can_nest_in, lines 25-27
cuda_can_nest_in(self, other) ==
    IF self.cuda_nesting = None THEN Raise("AssertionError")
    ELSE PyBool(other.cuda_nesting # None /\ self.cuda_nesting[1] > other.cuda_nesting[1])

\* the loop modes that can be constructed
LoopModes ==
    {m \in {Seq_, Par, CudaWarpgroups, CudaWarps, CudaThreads}
             \cup {CudaClusters(b) : b \in 0..MaxUnits}
             \cup {CudaBlocks(w) : w \in 0..MaxUnits} : ~IsRaise(m)}

LmInit ==
    /\ pc = "lm_start"
    /\ lm_modes \in [1..3 -> LoopModes]
    /\ lm_ret = <<>>
    /\ Idle({"lm"})

\* inner.cuda_can_nest_in(outer) for every pair of the three modes
LmNest ==
    /\ pc = "lm_start"
    /\ lm_ret' = [i \in 1..3 |-> [j \in 1..3 |-> cuda_can_nest_in(lm_modes[i], lm_modes[j])]]
    /\ pc' = "lm_done"
    /\ UNCHANGED lm_modes
    /\ OthersUnchanged({"lm"})

LmNext == LmNest

SpecLoopMode == LmInit /\ [][LmNext]_vars

\* the depth of a CUDA mode in the order
\* clusters < blocks < warpgroups < warps < threads; 0 for seq and par
LmDepth(m) ==
    CASE m.name = "cuda_clusters" -> 1
      [] m.name = "cuda_blocks" -> 2
      [] m.name = "cuda_warpgroups" -> 3
      [] m.name = "cuda_warps" -> 4
      [] m.name = "cuda_threads" -> 5
      [] OTHER -> 0

LmHolds(i, j) == lm_ret[i][j] = PyBool(TRUE)

\* C22: inner.cuda_can_nest_in(outer) holds exactly when outer is a CUDA
\* mode and inner is strictly deeper; on the CUDA modes it is irreflexive,
\* asymmetric, transitive and decides every two modes of different depth;
\* it never holds with seq or par outside.
C22_StrictOrder ==
    pc = "lm_done" =>
        /\ \A i, j \in 1..3 :
              /\ LmHolds(i, j) <=> /\ LmDepth(lm_modes[j]) > 0
                                   /\ LmDepth(lm_modes[i]) > LmDepth(lm_modes[j])
              /\ LmDepth(lm_modes[j]) = 0 => ~LmHolds(i, j)
              /\ ~LmHolds(i, i)
              /\ LmHolds(i, j) => ~LmHolds(j, i)
              /\ (LmDepth(lm_modes[i]) > 0 /\ LmDepth(lm_modes[j]) > 0
                    /\ LmDepth(lm_modes[i]) # LmDepth(lm_modes[j])) =>
                    (LmHolds(i, j) \/ LmHolds(j, i))
        /\ \A i, j, k \in 1..3 : (LmHolds(i, j) /\ LmHolds(j, k)) => LmHolds(i, k)

\* threads in warps in blocks: a chain of three, and the reverse refused
C22_Witness ==
    /\ pc = "lm_done"
    /\ lm_modes[1] = CudaThreads /\ lm_modes[2] = CudaWarps /\ lm_modes[3] = CudaBlocks(1)
    /\ LmHolds(1, 2) /\ LmHolds(2, 3) /\ LmHolds(1, 3)
    /\ lm_ret[3][2] = PyBool(FALSE)

(***************************************************************************)
(* SpecLower: Compiler.comp_s over statements with bodies.  The compiler   *)
(* is its scope stacks env, names and range_env, the indentation _tab      *)
(* (its length), the kernel being compiled spork, and the lines written.   *)
(* SporkEnv, the async configs and IndexRangeEnvironment are imported by   *)
(* the compiler; of SporkEnv only the stack of async configs it keeps and  *)
(* the lines it collects are modelled, of the range environment its        *)
(* stack of scopes.                                                        *)
(***************************************************************************)
\* async config classes: the type a block of the class must be nested in
\* (NoType: in no async block), the class it derives from, and its device
NoType == "NoneType"
AsyncConfig(cls, base, parent, device) ==
    [tag |-> "AsyncConfig", cls |-> cls, base |-> base, parent |-> parent, device |-> device]
KernelConfig == AsyncConfig("Kernel", NoType, NoType, "cuda")
SubKernelConfig == AsyncConfig("SubKernel", "Kernel", NoType, "cuda")
InKernelConfig == AsyncConfig("InKernel", NoType, "Kernel", "cuda")
HostConfig == AsyncConfig("Host", NoType, NoType, "cpu")
AsyncConfigs == {KernelConfig, SubKernelConfig, InKernelConfig, HostConfig}
isinstance(cfg, type) == type # NoType /\ type \in {cfg.cls, cfg.base}

\* statements
L_Pass == [tag |-> "Pass"]
L_Alloc(name) == [tag |-> "Alloc", name |-> name]
L_WindowStmt(name) == [tag |-> "WindowStmt", name |-> name]
L_For(loop_mode, stmts) == [tag |-> "For", iter |-> Name("i", NoSuffix), loop_mode |-> loop_mode, body |-> stmts]
L_If(stmts, orelse) == [tag |-> "If", body |-> stmts, orelse |-> orelse]
L_With(ctx, stmts) == [tag |-> "With", ctx |-> ctx, body |-> stmts]
ExtCtx == [tag |-> "ExtWithContext"]
SpecializeCollective == [tag |-> "SpecializeCollective"]

\* SporkEnv(name, s): the kernel of the async block s
NoSpork == [tag |-> "None"]
SporkEnv(s) == [tag |-> "SporkEnv", async_stack |-> <<s.ctx>>, specialize |-> 0, lines |-> <<>>]
truthy(spork) == spork.tag # "None"
get_async_config(spork) == spork.async_stack[Len(spork.async_stack)]
push_async(spork, ctx) == [spork EXCEPT !.async_stack = Append(@, ctx)]
pop_async(spork) == [spork EXCEPT !.async_stack = SubSeq(@, 1, Len(@) - 1)]
push_specialize_collective(spork) == [spork EXCEPT !.specialize = @ + 1]
pop_specialize_collective(spork) == [spork EXCEPT !.specialize = @ - 1]

\* the compiler after Compiler.__init__ has set its fields, lines 581-595
LowerCompiler ==
    [tag |-> "Compiler", env |-> <<EmptyMap>>, names |-> <<EmptyMap>>,
     range_env |-> <<{}>>, tab |-> 2, spork |-> NoSpork,
     lines |-> <<>>, ext_lines |-> <<>>,
     exc |-> [tag |-> "None"], entered |-> <<>>, completed |-> <<>>]

raised(c) == c.exc.tag = "Raise"
raise(c, exc) == [c EXCEPT !.exc = [tag |-> "Raise", exc |-> exc, at |-> Len(c.entered)]]

\* Compiler.add_line, lines 726-731, of a line that is not empty
add_line_tab(c, line) ==
    IF raised(c) THEN c
    ELSE IF truthy(c.spork)
         THEN [c EXCEPT !.spork.lines = Append(@, [tab |-> c.tab, line |-> line])]
         ELSE [c EXCEPT !.lines = Append(@, [tab |-> c.tab, line |-> line])]

\* _tab[:-2]
drop2(t) == IF t >= 2 THEN t - 2 ELSE 0

\* Compiler.push, lines 773-786
push(c, only) ==
    IF raised(c) THEN c
    ELSE CASE only = "None" ->
                [c EXCEPT !.env = new_child(@), !.range_env = Append(@, {}),
                          !.names = new_child(@), !.tab = @ + 2]
           [] only = "env" ->
                [c EXCEPT !.env = new_child(@), !.range_env = Append(@, {}),
                          !.names = new_child(@)]
           [] only = "tab" -> [c EXCEPT !.tab = @ + 2]
           [] OTHER -> raise(c, "AssertionError")

\* pop that leaves the indentation as it is
pop_scopes_only(c) ==
    IF raised(c) THEN c
    ELSE [c EXCEPT !.env = parents(@), !.range_env = SubSeq(@, 1, Len(@) - 1),
                   !.names = parents(@)]

\* Compiler.pop, lines 788-792
pop(c) ==
    IF raised(c) THEN c
    ELSE [c EXCEPT !.env = parents(@), !.range_env = SubSeq(@, 1, Len(@) - 1),
                   !.names = parents(@), !.tab = drop2(@)]

\* new_varname of lines 971, 1102 and 1147 with the binding in env
lower_new_varname(c, name) ==
    IF raised(c) THEN c
    ELSE IF IsRaise(new_varname(c.names, name))
         THEN raise(c, new_varname(c.names, name).exc)
         ELSE [c EXCEPT !.names = new_varname(c.names, name).names,
                        !.env = ChainSet(@, name, new_varname(c.names, name).ret)]

\* range_env.add_loop_iter, line 1104
add_loop_iter(c, iter) ==
    IF raised(c) THEN c
    ELSE [c EXCEPT !.range_env[Len(c.range_env)] = @ \cup {iter}]

\* an async block is let in wherever a kernel is being compiled
async_block_ok_in_kernel(spork, ctx) ==
    \/ truthy(spork) /\ ctx.parent # NoType
    \/ ~truthy(spork) /\ ctx.parent = NoType

\* the condition of lines 1018-1025
async_block_ok(spork, ctx) ==
    \/ /\ truthy(spork)
       /\ ctx.parent # NoType
       /\ isinstance(get_async_config(spork), ctx.parent)
    \/ ~truthy(spork) /\ ctx.parent = NoType

\* what the compiler was when a statement was entered or completed
Depths(c) ==
    [env |-> Len(c.env), names |-> Len(c.names), range_env |-> Len(c.range_env),
     tab |-> c.tab, spork |-> c.spork]

enter(c, s) == [c EXCEPT !.entered = Append(@, [s |-> s, spork |-> c.spork])]
complete(c, s, before) ==
    IF raised(c) THEN c
    ELSE [c EXCEPT !.completed = Append(@, [s |-> s, before |-> before, after |-> Depths(c)])]

set_tab(c, t) == IF raised(c) THEN c ELSE [c EXCEPT !.tab = t]
set_spork(c, spork) == IF raised(c) THEN c ELSE [c EXCEPT !.spork = spork]
on_spork(c, Op(_)) == IF raised(c) THEN c ELSE [c EXCEPT !.spork = Op(@)]

RECURSIVE comp_stmts(_, _)
RECURSIVE comp_s_case(_, _)

\* lines 1028-1043: the kernel is started or the config pushed
async_begin(c, s, starting_kernel) ==
    IF starting_kernel
    THEN IF s.ctx.device # "cuda" THEN raise(set_tab(c, 2), "AssertionError")
         ELSE set_spork(set_tab(c, 2), SporkEnv(s))
    ELSE [c EXCEPT !.spork = push_async(@, s.ctx)]

\* lines 1048-1064: the kernel is closed and launched, or the config popped
async_end(c, starting_kernel, old_tabs) ==
    IF raised(c) THEN c
    ELSE IF starting_kernel
         THEN add_line_tab([c EXCEPT !.spork = NoSpork, !.tab = old_tabs,
                                     !.ext_lines = Append(@, c.spork.lines)], "launch")
         ELSE [c EXCEPT !.spork = pop_async(@)]

\* the external-context block, lines 976-1001
comp_s_ext_block(c, s) ==
    LET after_body == comp_stmts([add_line_tab([c EXCEPT !.tab = 0, !.lines = <<>>], "body_prefix")
                               EXCEPT !.tab = 2], s.body)
    IN  IF raised(after_body) THEN after_body
        ELSE add_line_tab(
                [after_body EXCEPT !.tab = c.tab, !.lines = c.lines,
                                !.ext_lines = Append(@, add_line_tab(set_tab(after_body, 0), "body_suffix").lines)],
                "launch")

\* Compiler.comp_s, lines 912-1195, by the kind of statement
comp_s_case(c, s) ==
    CASE s.tag = "Pass" -> add_line_tab(c, "; // NO-OP")
      [] s.tag = "WindowStmt" -> add_line_tab(lower_new_varname(c, s.name), "struct")
      [] s.tag = "Alloc" -> add_line_tab(lower_new_varname(c, s.name), "alloc")
      [] s.tag = "With" /\ s.ctx.tag = "ExtWithContext" -> comp_s_ext_block(c, s)
      [] s.tag = "With" /\ s.ctx.tag = "AsyncConfig" ->
            IF ~async_block_ok(c.spork, s.ctx) THEN raise(c, "TypeError")
            ELSE async_end(
                    pop(comp_stmts(push(async_begin(c, s, ~truthy(c.spork)), "None"), s.body)),
                    ~truthy(c.spork), c.tab)
      [] s.tag = "With" /\ s.ctx.tag = "SpecializeCollective" ->
            IF ~truthy(c.spork) THEN raise(c, "ValueError")
            ELSE on_spork(
                    add_line_tab(
                       pop(comp_stmts(
                              push(add_line_tab(on_spork(c, push_specialize_collective), "if (cond) {"),
                                   "None"),
                              s.body)),
                       "}"),
                    pop_specialize_collective)
      [] s.tag = "With" -> raise(c, "TypeError")
      [] s.tag = "If" ->
            add_line_tab(
               IF Len(s.orelse) > 0
               THEN pop(comp_stmts(
                           push(add_line_tab(
                                   pop(comp_stmts(push(add_line_tab(c, "if (cond) {"), "None"), s.body)),
                                   "} else {"),
                                "None"),
                           s.orelse))
               ELSE pop(comp_stmts(push(add_line_tab(c, "if (cond) {"), "None"), s.body)),
               "}")
      [] s.tag = "For" ->
            add_line_tab(
               pop(comp_stmts(
                      push(IF s.loop_mode = Par
                           THEN add_line_tab(
                                   add_line_tab(add_loop_iter(lower_new_varname(push(c, "env"), s.iter), s.iter),
                                                "#pragma omp parallel for"),
                                   "for (...) {")
                           ELSE IF s.loop_mode = Seq_
                           THEN add_line_tab(add_loop_iter(lower_new_varname(push(c, "env"), s.iter), s.iter),
                                             "for (...) {")
                           ELSE raise(add_loop_iter(lower_new_varname(push(c, "env"), s.iter), s.iter),
                                      "TypeError"),
                           "tab"),
                      s.body)),
               "}")
      [] OTHER -> raise(c, "AssertionError")

comp_s(c, s) ==
    IF raised(c) THEN c
    ELSE complete(comp_s_case(enter(c, s), s), s, Depths(c))

\* Compiler.comp_stmts, lines 733-735
comp_stmts(c, stmts) ==
    IF stmts = <<>> \/ raised(c) THEN c
    ELSE comp_stmts(comp_s(c, Head(stmts)), Tail(stmts))

\* the statements of a nesting depth: a leaf, or a loop, a conditional or a
\* with-block around a statement one level less deep
LowerLeaves == {L_Pass, L_Alloc(Name("x", NoSuffix)), L_WindowStmt(Name("x", NoSuffix))}
RECURSIVE LowerStmts(_)
LowerStmts(n) ==
    IF n = 0 THEN LowerLeaves
    ELSE LowerLeaves
         \cup {L_For(m, <<b>>) : m \in {Seq_, Par, CudaThreads}, b \in LowerStmts(n - 1)}
         \cup {L_If(<<b>>, o) : b \in LowerStmts(n - 1), o \in {<<>>, <<L_Alloc(Name("x", NoSuffix))>>}}
         \cup {L_With(ctx, <<b>>) : ctx \in AsyncConfigs \cup {ExtCtx, SpecializeCollective},
                                    b \in LowerStmts(n - 1)}

LwInit ==
    /\ pc = "lw_start"
    /\ lw_s \in LowerStmts(MaxNest)
    /\ lw_c = LowerCompiler
    /\ Idle({"lw"})

\* comp_stmts of a procedure body of the one statement
LwLower ==
    /\ pc = "lw_start"
    /\ lw_c' = comp_stmts(lw_c, <<lw_s>>)
    /\ pc' = IF raised(lw_c') THEN "lw_raised" ELSE "lw_done"
    /\ UNCHANGED lw_s
    /\ OthersUnchanged({"lw"})

LwNext == LwLower

SpecLower == LwInit /\ [][LwNext]_vars

\* the statements entered, in order, with the kernel they met
LwEntered == lw_c.entered
LwRaisedAt(i, exc) == raised(lw_c) /\ lw_c.exc.at = i /\ lw_c.exc.exc = exc
LwIsAsync(i) == LwEntered[i].s.tag = "With" /\ LwEntered[i].s.ctx.tag = "AsyncConfig"
LwIsSpecialize(i) ==
    LwEntered[i].s.tag = "With" /\ LwEntered[i].s.ctx.tag = "SpecializeCollective"
LwInKernel(i) == LwEntered[i].spork.tag = "SporkEnv"
\* the declared parent type of the block, and the config the kernel is in
LwParent(i) == LwEntered[i].s.ctx.parent
LwCurrent(i) == LwEntered[i].spork.async_stack[Len(LwEntered[i].spork.async_stack)]
LwMayEnter(i) ==
    \/ LwParent(i) = NoType /\ ~LwInKernel(i)
    \/ /\ LwInKernel(i)
       /\ LwParent(i) # NoType
       /\ LwParent(i) \in {LwCurrent(i).cls, LwCurrent(i).base}

\* C23: an async block is accepted only with no declared parent type and no
\* kernel being compiled, or in a kernel whose current async config is an
\* instance of the declared parent type; otherwise lowering stops at the
\* block with a TypeError and no statement of its body is entered; a
\* collective specialization outside a kernel stops with a ValueError.
C23_AsyncBlockNesting ==
    pc # "lw_start" =>
        \A i \in DOMAIN LwEntered :
            /\ LwIsAsync(i) =>
                  /\ LwRaisedAt(i, "TypeError") <=> ~LwMayEnter(i)
                  /\ ~LwMayEnter(i) => Len(LwEntered) = i
                  /\ (LwMayEnter(i) /\ LwEntered[i].s.ctx.device = "cuda") => Len(LwEntered) > i
            /\ LwIsSpecialize(i) =>
                  /\ LwRaisedAt(i, "ValueError") <=> ~LwInKernel(i)
                  /\ ~LwInKernel(i) => Len(LwEntered) = i

\* a block that needs a Kernel parent, met in a block of its own class in a kernel
C23_Witness ==
    /\ pc = "lw_raised"
    /\ lw_s = L_With(KernelConfig, <<L_With(InKernelConfig, <<L_With(InKernelConfig, <<L_Pass>>)>>)>>)
    /\ Len(LwEntered) = 3
    /\ LwRaisedAt(3, "TypeError")
    /\ LwInKernel(3) /\ LwCurrent(3) = InKernelConfig

\* C28: a statement that comp_s lowers without an error leaves the depth of
\* env, names and the range environment and the length of the indentation
\* as they were, and the compiler outside any kernel if it was outside.
C28_ScopesBalanced ==
    pc # "lw_start" =>
        \A i \in DOMAIN lw_c.completed :
            LET r == lw_c.completed[i] IN
            /\ r.after.env = r.before.env
            /\ r.after.names = r.before.names
            /\ r.after.range_env = r.before.range_env
            /\ r.after.tab = r.before.tab
            /\ r.before.spork = NoSpork => r.after.spork = NoSpork

\* a loop around a kernel around a conditional with both arms
C28_Witness ==
    /\ pc = "lw_done"
    /\ lw_s = L_For(Seq_, <<L_With(KernelConfig,
                 <<L_If(<<L_Alloc(Name("x", NoSuffix))>>, <<L_Alloc(Name("x", NoSuffix))>>)>>)>>)
    /\ Len(lw_c.completed) = 5
    /\ lw_c.completed[5].s = lw_s
    /\ lw_c.completed[5].after = Depths(LowerCompiler)

\* C24: in the list find_all_subprocs returns for an acyclic call graph,
\* every callee stands before each procedure that calls it.
C24_CalleesFirst ==
    (pc = "sub_returned" /\ ~HasCallCycle) =>
        \A i, j \in DOMAIN sub_ret :
            sub_ret[j] \in LoopIR_SubProcs(sub_ret[i]) => j < i

\* What the code does ensure: a procedure that walk reached through a call
\* stands before the procedure whose loop reached it first, so the order is
\* the claimed one when no procedure has two callers or is also given in
\* proc_list.
SubCallers(q) == {r \in ReachFrom(Roots) : q \in LoopIR_SubProcs(r)}
C24_HoldsOnTrees ==
    (/\ pc = "sub_returned"
     /\ ~HasCallCycle
     /\ \A q \in ReachFrom(Roots) :
           /\ Cardinality(SubCallers(q)) <= 1
           /\ SubCallers(q) # {} => q \notin Roots)
    => \A i, j \in DOMAIN sub_ret :
           sub_ret[j] \in LoopIR_SubProcs(sub_ret[i]) => j < i

(***************************************************************************)
(* SpecCollIndex: CollIndexExpr of coll_algebra.py, lines 119-230.  The    *)
(* base is a target-language expression (a str) or a constant (an int);    *)
(* ops is the sequence of (operator, int) pairs to apply to the base.      *)
(***************************************************************************)
CollOp(op, v) == <<op, v>>
CollIndexExpr_str(base_expr, ops) ==
    [tag |-> "CollIndexExpr", is_int |-> FALSE, base_expr |-> base_expr, int |-> 0, ops |-> ops]
CollIndexExpr_int(n) ==
    [tag |-> "CollIndexExpr", is_int |-> TRUE, base_expr |-> "", int |-> n, ops |-> <<>>]

\* Python's // and % on an int that is not negative and a positive int
PyFloorDivNat(a, b) == a \div b
PyModNat(a, b) == a % b

\* CollIndexExpr.__truediv__, lines 169-180
CollIndexExpr_truediv(self, v) ==
    IF self.is_int THEN CollIndexExpr_int(PyFloorDivNat(self.int, v))
    ELSE IF v = 1 THEN self
    ELSE IF self.ops # <<>> /\ self.ops[Len(self.ops)][1] = "/"
    THEN CollIndexExpr_str(self.base_expr,
            Append(SubSeq(self.ops, 1, Len(self.ops) - 1),
                   CollOp("/", self.ops[Len(self.ops)][2] * v)))
    ELSE CollIndexExpr_str(self.base_expr, Append(self.ops, CollOp("/", v)))

\* __mod__ that keeps the first modulus whenever one of the two divides the other
CollIndexExpr_mod_keep_first(self, v) ==
    IF self.is_int THEN CollIndexExpr_int(PyModNat(self.int, v))
    ELSE IF v = 1 THEN CollIndexExpr_int(0)
    ELSE IF /\ self.ops # <<>>
            /\ self.ops[Len(self.ops)][1] = "%"
            /\ (self.ops[Len(self.ops)][2] % v = 0 \/ v % self.ops[Len(self.ops)][2] = 0)
    THEN self
    ELSE CollIndexExpr_str(self.base_expr, Append(self.ops, CollOp("%", v)))

\* CollIndexExpr.__mod__, lines 185-199
CollIndexExpr_mod(self, v) ==
    IF self.is_int THEN CollIndexExpr_int(PyModNat(self.int, v))
    ELSE IF v = 1 THEN CollIndexExpr_int(0)
    ELSE IF /\ self.ops # <<>>
            /\ self.ops[Len(self.ops)][1] = "%"
            /\ self.ops[Len(self.ops)][2] % v = 0
    THEN CollIndexExpr_str(self.base_expr,
            Append(SubSeq(self.ops, 1, Len(self.ops) - 1), CollOp("%", v)))
    ELSE IF /\ self.ops # <<>>
            /\ self.ops[Len(self.ops)][1] = "%"
            /\ v % self.ops[Len(self.ops)][2] = 0
    THEN CollIndexExpr_str(self.base_expr,
            Append(SubSeq(self.ops, 1, Len(self.ops) - 1),
                   CollOp("%", self.ops[Len(self.ops)][2])))
    ELSE CollIndexExpr_str(self.base_expr, Append(self.ops, CollOp("%", v)))

CollInit ==
    /\ pc = "coll"
    /\ coll_x \in 0..MaxThreadIdx
    /\ coll_e \in {CollIndexExpr_str("threadIdx", <<>>), CollIndexExpr_int(coll_x)}
    /\ coll_prev = coll_e
    /\ coll_hist = <<>>
    /\ Idle({"coll"})

\* e / v
CollDiv ==
    /\ pc = "coll"
    /\ Len(coll_hist) < MaxOps
    /\ \E v \in 1..MaxModulus :
          /\ coll_e' = CollIndexExpr_truediv(coll_e, v)
          /\ coll_hist' = Append(coll_hist, CollOp("/", v))
    /\ coll_prev' = coll_e
    /\ UNCHANGED <<pc, coll_x>>
    /\ OthersUnchanged({"coll"})

\* e % v
CollMod ==
    /\ pc = "coll"
    /\ Len(coll_hist) < MaxOps
    /\ \E v \in 1..MaxModulus :
          /\ coll_e' = CollIndexExpr_mod(coll_e, v)
          /\ coll_hist' = Append(coll_hist, CollOp("%", v))
    /\ coll_prev' = coll_e
    /\ UNCHANGED <<pc, coll_x>>
    /\ OthersUnchanged({"coll"})

CollNext == CollDiv \/ CollMod

SpecCollIndex == CollInit /\ [][CollNext]_vars

\* the value of the operators ops applied in order to the value n, with the
\* division and remainder of integers that are not negative
RECURSIVE CollApply(_, _)
CollApply(n, ops) ==
    IF ops = <<>> THEN n
    ELSE CollApply(IF Head(ops)[1] = "/" THEN n \div Head(ops)[2] ELSE n % Head(ops)[2],
                   Tail(ops))
CollValue(e) == IF e.is_int THEN e.int ELSE CollApply(coll_x, e.ops)

CollLast == coll_hist[Len(coll_hist)]
CollTwo(op) ==
    /\ Len(coll_hist) = 2 /\ coll_hist[1][1] = op /\ coll_hist[2][1] = op
    /\ ~coll_e.is_int

\* C25: with x not negative and the operands positive, the expression
\* built by / and % has the value of the operators applied in order to x
\* (floor division, mod); x % u % v is x % v when v divides u and x % u
\* when u divides v, x / u / v is x / (u*v) (x itself when u*v is 1); e % 1
\* is the constant 0 and e / 1 is e.
C25_DivModValue ==
    /\ pc = "coll" => CollValue(coll_e) = CollApply(coll_x, coll_hist)
    /\ (CollTwo("%") /\ coll_hist[1][2] % coll_hist[2][2] = 0) =>
           coll_e.ops = <<CollOp("%", coll_hist[2][2])>>
    /\ (CollTwo("%") /\ coll_hist[2][2] % coll_hist[1][2] = 0
                     /\ coll_hist[1][2] % coll_hist[2][2] # 0) =>
           coll_e.ops = <<CollOp("%", coll_hist[1][2])>>
    /\ (CollTwo("/") /\ coll_hist[1][2] * coll_hist[2][2] > 1) =>
           coll_e.ops = <<CollOp("/", coll_hist[1][2] * coll_hist[2][2])>>
    /\ (coll_hist # <<>> /\ CollLast = CollOp("%", 1)) => (coll_e.is_int /\ coll_e.int = 0)
    /\ (coll_hist # <<>> /\ CollLast = CollOp("/", 1)) => coll_e = coll_prev

\* threadIdx % 6 % 3 merged to threadIdx % 3, at a value where % 6 alone differs
C25_Witness ==
    /\ pc = "coll"
    /\ coll_hist = <<CollOp("%", 6), CollOp("%", 3)>>
    /\ coll_e = CollIndexExpr_str("threadIdx", <<CollOp("%", 3)>>)
    /\ coll_x = 5
    /\ CollValue(coll_e) = 2

(***************************************************************************)
(* SpecCompCir: comp_cir, lines 794-829, on the index expressions of depth *)
(* at most two over the variable x, the literals 0..MaxLit and the         *)
(* operators + - * %, as access_str calls it (prec = 0).                   *)
(***************************************************************************)
CcOps == {"+", "-", "*", "%"}
CcGrow(S) == S \cup {CIR_BinOp(op, l, r, FALSE) : op \in CcOps, l \in S, r \in S}
CcEnv == [x |-> "x"]

CcInit ==
    /\ pc = "cc_start"
    /\ cc_e \in CcGrow(CcGrow(ScLeaves))
    /\ cc_s = <<>>
    /\ Idle({"cc"})

CcCompile ==
    /\ pc = "cc_start"
    /\ cc_s' = comp_cir(cc_e, CcEnv, 0).s
    /\ pc' = "cc_done"
    /\ UNCHANGED cc_e
    /\ OthersUnchanged({"cc"})

CcNext == CcCompile

SpecCompCir == CcInit /\ [][CcNext]_vars

(***************************************************************************)
(* The C reading of a text: + and - bind less than * and %, operators of   *)
(* one level group from the left, parentheses group first.                 *)
(***************************************************************************)
CcParsed(tree, pos) == [tree |-> tree, pos |-> pos]
CcLeaf(tok) ==
    IF tok = "x" THEN CIR_Read("x", FALSE)
    ELSE CIR_Const(PyInt(CHOOSE c \in 0..(MaxLit + 1) : ToString(c) = tok))

RECURSIVE CcSum(_, _)
RECURSIVE CcSumRest(_, _)
RECURSIVE CcTermRest(_, _)
CcAtom(toks, i) ==
    IF toks[i] = "(" THEN CcParsed(CcSum(toks, i + 1).tree, CcSum(toks, i + 1).pos + 1)
    ELSE CcParsed(CcLeaf(toks[i]), i + 1)
CcTermRest(toks, r) ==
    IF r.pos <= Len(toks) /\ toks[r.pos] \in {"*", "%"}
    THEN CcTermRest(toks,
            CcParsed(CIR_BinOp(toks[r.pos], r.tree, CcAtom(toks, r.pos + 1).tree, FALSE),
                     CcAtom(toks, r.pos + 1).pos))
    ELSE r
CcTerm(toks, i) == CcTermRest(toks, CcAtom(toks, i))
CcSumRest(toks, r) ==
    IF r.pos <= Len(toks) /\ toks[r.pos] \in {"+", "-"}
    THEN CcSumRest(toks,
            CcParsed(CIR_BinOp(toks[r.pos], r.tree, CcTerm(toks, r.pos + 1).tree, FALSE),
                     CcTerm(toks, r.pos + 1).pos))
    ELSE r
CcSum(toks, i) == CcSumRest(toks, CcTerm(toks, i))
CcRead(toks) == CcSum(toks, 1).tree

\* C26: the text comp_cir gives for an expression over variables, integer
\* constants and + - * %, read as C reads it, has the value of the
\* expression under every assignment that gives both a value.
C26_TextKeepsValue ==
    pc = "cc_done" =>
        \A val \in ScVals :
            (ScDefined(cc_e, val) /\ ScDefined(CcRead(cc_s), val)) =>
                ScValue(CcRead(cc_s), val) = ScValue(cc_e, val)

\* an operand on the right whose operator binds as its parent's does, under
\* a parent where the grouping matters and - is not the parent
RECURSIVE CcRightGroup(_)
CcRightGroup(e) ==
    /\ e.tag = "BinOp"
    /\ \/ CcRightGroup(e.lhs)
       \/ CcRightGroup(e.rhs)
       \/ /\ e.rhs.tag = "BinOp"
          /\ op_prec(e.rhs.op) = op_prec(e.op)
          /\ e.op # "-"

\* What the code does ensure: the text reads back as the expression itself
\* unless an operand on the right binds as its parent does.
C26_TreeKeptWithoutRightGroup ==
    (pc = "cc_done" /\ ~CcRightGroup(cc_e)) => CcRead(cc_s) = cc_e

(***************************************************************************)
(* SpecDomain: DomainCompletionOp.__init__ and _new_coords of              *)
(* coll_algebra.py, lines 351-404 and 438-459.  A domain is a tuple of     *)
(* positive coordinates; tuples are indexed from 1 here.                   *)
(***************************************************************************)
RECURSIVE Prod(_)
Prod(q) == IF q = <<>> THEN 1 ELSE Head(q) * Prod(Tail(q))
Larger(a, b) == IF a >= b THEN a ELSE b

\* cumulative_thread_counts, lines 364-369: entry i is the product of the
\* coordinates from i on, the last entry 1
cumulative_thread_counts(domain) ==
    [i \in 1..(Len(domain) + 1) |-> Prod(SubSeq(domain, i, Len(domain)))]

\* the loops of lines 383-394 from (i_s, i_t) on, acc the idx_factors so far
RECURSIVE idx_factors_loop(_, _, _, _, _, _)
idx_factors_loop(source_domain, cumulative_s, cumulative_t, i_s, i_t, acc) ==
    IF i_s = 0 THEN [tag |-> "idx_factors", f |-> acc]
    ELSE IF i_t = 0
    THEN idx_factors_loop(source_domain, cumulative_s, cumulative_t,
                          i_s - 1, Len(cumulative_t) - 1, acc)
    ELSE IF cumulative_s[i_s] > cumulative_t[i_t] /\ cumulative_t[i_t] > cumulative_s[i_s + 1]
    THEN IF source_domain[i_s]
              % (cumulative_t[i_t] \div Larger(cumulative_t[i_t + 1], cumulative_s[i_s + 1])) # 0
         THEN Raise("AssertionError")
         ELSE idx_factors_loop(source_domain, cumulative_s, cumulative_t, i_s, i_t - 1,
                 Append(acc, <<i_s, cumulative_t[i_t]
                                      \div Larger(cumulative_t[i_t + 1], cumulative_s[i_s + 1])>>))
    ELSE idx_factors_loop(source_domain, cumulative_s, cumulative_t, i_s, i_t - 1, acc)

\* _new_coords, lines 438-459, as __init__ calls it: outer_op is c // factor,
\* inner_op is factor, no prefix and no defaults
RECURSIVE new_coords(_, _)
new_coords(coords, idx_factors) ==
    IF idx_factors = <<>> THEN coords
    ELSE new_coords(
            SubSeq(coords, 1, Head(idx_factors)[1] - 1)
               \o <<coords[Head(idx_factors)[1]] \div Head(idx_factors)[2], Head(idx_factors)[2]>>
               \o SubSeq(coords, Head(idx_factors)[1] + 1, Len(coords)),
            Tail(idx_factors))

\* lines 381-404, once the source domain has its prefix
completion_of(source_domain, idx_factors, source_partial) ==
    IF IsRaise(idx_factors) THEN idx_factors
    ELSE [tag |-> "DomainCompletionOp", idx_factors |-> idx_factors.f,
          input_dim |-> Len(source_domain), source_partial |-> source_partial,
          domain |-> new_coords(source_domain, idx_factors.f)]

\* lines 381-394
idx_factors_of(source_domain, cumulative_s, cumulative_t) ==
    idx_factors_loop(source_domain, cumulative_s, cumulative_t,
                     Len(source_domain), Len(cumulative_t) - 1, <<>>)

\* DomainCompletionOp.__init__, lines 357-404
DomainCompletionOp(source_domain, target_domain, allow_partial_source) ==
    IF /\ allow_partial_source
       /\ cumulative_thread_counts(source_domain)[1] # cumulative_thread_counts(target_domain)[1]
    THEN IF cumulative_thread_counts(target_domain)[1]
               % cumulative_thread_counts(source_domain)[1] # 0
         THEN Raise("AssertionError")
         ELSE completion_of(
                 <<Prod(target_domain) \div Prod(source_domain)>> \o source_domain,
                 idx_factors_of(<<Prod(target_domain) \div Prod(source_domain)>> \o source_domain,
                                <<Prod(target_domain)>> \o cumulative_thread_counts(source_domain),
                                cumulative_thread_counts(target_domain)),
                 TRUE)
    ELSE IF cumulative_thread_counts(source_domain)[1]
               % cumulative_thread_counts(target_domain)[1] # 0
         THEN Raise("AssertionError")
         ELSE completion_of(
                 source_domain,
                 idx_factors_of(source_domain, cumulative_thread_counts(source_domain),
                                cumulative_thread_counts(target_domain)),
                 FALSE)

Domains == UNION {[1..n -> 1..MaxCoord] : n \in 1..MaxDims}

DcInit ==
    /\ pc = "dc_start"
    /\ dc_source \in Domains
    /\ dc_target \in Domains
    /\ dc_partial \in BOOLEAN
    /\ dc_op = <<>>
    /\ Idle({"dc"})

DcConstruct ==
    /\ pc = "dc_start"
    /\ dc_op' = DomainCompletionOp(dc_source, dc_target, dc_partial)
    /\ pc' = IF IsRaise(dc_op') THEN "dc_raised" ELSE "dc_done"
    /\ UNCHANGED <<dc_source, dc_target, dc_partial>>
    /\ OthersUnchanged({"dc"})

DcNext == DcConstruct

SpecDomain == DcInit /\ [][DcNext]_vars

\* C27: a DomainCompletionOp constructed without an assertion failure has a
\* completed domain whose product is the thread count of the source domain
\* with its prefix: the larger of the products of the two domains.
C27_ThreadsKept ==
    pc = "dc_done" => Prod(dc_op.domain) = Larger(Prod(dc_source), Prod(dc_target))

\* What the code does ensure: the product is kept when no coordinate of the
\* source is split more than once.
DcSplitOnce ==
    \A i, j \in DOMAIN dc_op.idx_factors :
        i # j => dc_op.idx_factors[i][1] # dc_op.idx_factors[j][1]
C27_KeptWhenSplitOnce ==
    (pc = "dc_done" /\ DcSplitOnce) =>
        Prod(dc_op.domain) = Larger(Prod(dc_source), Prod(dc_target))

====
